---- MODULE Spec2Model ----
(***************************************************************************)
(* The "Become the Consumer" game server (the lock / grace-period         *)
(* variant, src/unnamed/part_000 lines 70-587) as a state machine.        *)
(*                                                                         *)
(* Node.js runs one callback at a time, so every action below is one run  *)
(* of the event loop: a timer callback or a WebSocket command from its     *)
(* start to its first broker await, or the continuation of an async        *)
(* function from the completion of one broker await to the next one.       *)
(* An `await` of an async function that returns without awaiting the       *)
(* broker (handleQueueLock, the return of initGame to the command          *)
(* handler) is part of the same action.  Two consecutive broker awaits     *)
(* with no access to the game state between them (queue(passive) followed  *)
(* by get or purge) are one await.                                         *)
(*                                                                         *)
(* Left out: totalMessages, gameStartTime and lastSpawnRateDecrease (never *)
(* read by the server), message ids, and wall-clock time: a pending timer  *)
(* may fire at any moment.                                                 *)
(***************************************************************************)
EXTENDS Integers, Sequences, FiniteSets, Bags, TLC

\* ---------------------------------------------------------------- bounds
\* Number of timer ticks and client commands in one behaviour.
MaxEvents == 3

\* ------------------------------------------------------ program constants
LockThreshold == 10
MaxQueues == 10
InitialSpawnRate == 3000
MinSpawnRate == 500
SpawnRateStep == 200
CorrectReward == 10
WrongPenalty == 5
PurgePenalty == 50
InitialQueues == 2

ANIMAL_NAMES ==
  << "lemming", "lemur", "orca", "panda", "rhino",
     "tiger", "whale", "hippo", "bunny", "pika",
     "koala", "falcon", "otter", "fox", "lynx" >>

Kinds == {"good", "bad"}
Clients == {"c1"}
Null == "null"
\* Date.now(): the model has no clock, every timestamp is the same token.
Now == "ts"

VARIABLES
  score,               \* gameState.score
  spawnRate,           \* gameState.spawnRate
  fanoutMode,          \* gameState.fanoutMode
  gameOver,            \* gameState.gameOver
  queues,              \* gameState.queues: sequence of [name, obj], insertion order
  heap,                \* the queue-data objects ever created, by identity
  queueCounter,        \* queueCounter
  spawnInterval,       \* timers created by startSpawnLoop
  difficultyInterval,  \* timers created by startDifficultyLoop
  newQueueInterval,    \* timers created by scheduleNextQueue
  fanoutInterval,      \* timers created by startFanoutLoop
  fanoutEnd,           \* pending 5 s timeouts that end fanout mode
  procs,               \* async functions suspended at a broker await (a bag)
  out,                 \* what the last action sent: [to, msg] in order
  events               \* timer ticks and commands so far

\* The chat client (ChatChannelManager and the AmqpConnectionManager it is
\* given).  It runs in a browser, apart from the game server: the server's
\* actions leave these variables alone and the chat's actions leave the
\* server's alone; procs, out and events serve both.
VARIABLES
  connection,          \* amqpConnection.connection is set
  channels,            \* this.channels: sequence of [name, obj], insertion order
  channelInfos,        \* the channelInfo objects ever created, by identity
  activeChannel,       \* this.activeChannel
  consumers,           \* the consumers the broker started: [name, active]
  published,           \* the messages handed to queue.publish, in order
  channel,             \* amqpConnection.channel is set
  isConnected,         \* amqpConnection.isConnected
  isConnecting,        \* amqpConnection.isConnecting
  reconnectAttempts,   \* amqpConnection.reconnectAttempts
  reconnectTimers,     \* pending timeouts of scheduleReconnect
  handlers,            \* clients with onerror / onclose set that can still fire
  userDisconnected,    \* disconnect() has completed and the application has
                       \* not called connect() since (history)
  currentChannel,      \* ChatUIManager.currentChannel
  subscribedChannels,  \* ChatUIManager.subscribedChannels
  messageBuffers,      \* ChatUIManager.messageBuffers: channel name -> messages
  unreadCounts         \* ChatUIManager.unreadCounts: channel name -> number

connVars == << channel, isConnected, isConnecting, reconnectAttempts, reconnectTimers,
               handlers, userDisconnected >>
uiVars == << currentChannel, subscribedChannels, messageBuffers, unreadCounts >>
chatVars == << connection, channels, channelInfos, activeChannel, consumers, published,
               connVars, uiVars >>

defaultChannel == "general"

vars == << score, spawnRate, fanoutMode, gameOver, queues, heap, queueCounter,
           spawnInterval, difficultyInterval, newQueueInterval, fanoutInterval,
           fanoutEnd, procs, out, events, chatVars >>

\* The constructors of AmqpConnectionManager and ChatChannelManager.
ChatConstructed ==
  /\ connection = FALSE
  /\ channels = << >>
  /\ channelInfos = << >>
  /\ activeChannel = Null
  /\ consumers = << >>
  /\ published = << >>
  /\ channel = FALSE
  /\ isConnected = FALSE
  /\ isConnecting = FALSE
  /\ reconnectAttempts = 0
  /\ reconnectTimers = 0
  /\ handlers = 0
  /\ userDisconnected = FALSE
  /\ currentChannel = defaultChannel
  /\ subscribedChannels = {}
  /\ messageBuffers = << >>
  /\ unreadCounts = << >>

gameVars == << score, spawnRate, fanoutMode, gameOver, queues, heap, queueCounter >>
timerVars == << spawnInterval, difficultyInterval, newQueueInterval, fanoutInterval,
                fanoutEnd >>

\* ------------------------------------------------------------ queue names
\* getNextQueueName() with queueCounter = c; the counter becomes c + 1.
getNextQueueName(c) == << ANIMAL_NAMES[(c % Len(ANIMAL_NAMES)) + 1], c + 1 >>

\* Names a client may put in a command.
CommandNames == { getNextQueueName(c) : c \in 0..2 } \cup { << "nosuch", 0 >> }

\* ------------------------------------------------- the Map gameState.queues
MapHas(qs, name) == \E i \in 1..Len(qs) : qs[i].name = name

\* queues.get(name): the object's identity, 0 for undefined.
MapGet(qs, name) ==
  IF MapHas(qs, name)
  THEN qs[CHOOSE i \in 1..Len(qs) : qs[i].name = name].obj
  ELSE 0

\* queues.set(name, obj): a new key goes last, an existing key keeps its place.
MapSet(qs, name, obj) ==
  IF MapHas(qs, name)
  THEN [i \in 1..Len(qs) |-> IF qs[i].name = name THEN [name |-> name, obj |-> obj]
                                                  ELSE qs[i]]
  ELSE Append(qs, [name |-> name, obj |-> obj])

MapKeys(qs) == [i \in 1..Len(qs) |-> qs[i].name]

\* The object literal of createQueue.
NewQueueData(name) ==
  [name |-> name, messages |-> << >>, locked |-> FALSE, lockedAt |-> Null,
   lockTimeout |-> Null, timers |-> 0]

\* ------------------------------------------------------------------ timers
\* A timer variable: how many timers created through it are still active,
\* and whether the handle it holds is one of them.
ClearTimer(t) == IF t.held THEN [active |-> t.active - 1, held |-> FALSE] ELSE t
SetTimer(t) == [active |-> t.active + 1, held |-> TRUE]

\* ---------------------------------------------------------------- messages
Bcast(m) == [to |-> "all", msg |-> m]
Send(c, m) == [to |-> c, msg |-> m]

\* getStateForClient()
getStateForClient(sc, rate, qs, h, go) ==
  [type |-> "state",
   score |-> sc,
   spawnRate |-> rate,
   queues |-> [i \in 1..Len(qs) |->
                 [name |-> qs[i].name,
                  messages |-> h[qs[i].obj].messages,
                  locked |-> h[qs[i].obj].locked,
                  lockedAt |-> h[qs[i].obj].lockedAt]],
   gameOver |-> go]

Proc(op, pc, name, obj, kind, names, client) ==
  [op |-> op, pc |-> pc, name |-> name, obj |-> obj, kind |-> kind,
   names |-> names, client |-> client]

Running == BagToSet(procs)
Without(p) == procs (-) SetToBag({p})
With(b, p) == b (+) SetToBag({p})


\* ------------------------------------------------- handleQueueLock(name)
\* The object handleQueueLock locks: the one the map holds under `name` now,
\* 0 when the function returns at its first line.
LockTarget(qs, h, name) ==
  LET o == MapGet(qs, name) IN IF o = 0 \/ h[o].locked THEN 0 ELSE o

\* queueData after handleQueueLock: locked, with a new grace timer.
LockedQueueData(q) ==
  [q EXCEPT !.locked = TRUE, !.lockedAt = Now,
            !.lockTimeout = "pending", !.timers = @ + 1]

handleQueueLock(qs, h, name) ==
  LET o == LockTarget(qs, h, name) IN
  IF o = 0 THEN h ELSE [h EXCEPT ![o] = LockedQueueData(@)]

\* What handleQueueLock broadcasts, `h2` being the heap it leaves.
LockBroadcast(sc, rate, qs, h, h2, go, name) ==
  IF LockTarget(qs, h, name) = 0 THEN << >>
  ELSE << Bcast([type |-> "queue_locked", name |-> name, lockedAt |-> Now]),
          Bcast(getStateForClient(sc, rate, qs, h2, go)) >>

\* queueData.messages.push(message)
Push(h, o, kind) == [h EXCEPT ![o].messages = Append(@, kind)]

\* The check after a push: lock when the list has reached the threshold.
AfterPush(qs, h, o, name) ==
  IF Len(h[o].messages) >= LockThreshold THEN handleQueueLock(qs, h, name) ELSE h

\* --------------------------------------------------------- spawnMessage()
\* The unlocked queues of normal mode, in map order.
UnlockedNames(qs, h) ==
  SelectSeq(MapKeys(qs), LAMBDA n : ~h[MapGet(qs, n)].locked)

\* FanoutRest without the `continue`: no queue is skipped.
FanoutRestNoSkip(names, qs, h) == names

\* The fanout loop's `continue`: the names from the first one that is in the
\* map and unlocked.
RECURSIVE FanoutRest(_, _, _)
FanoutRest(names, qs, h) ==
  IF names = << >> THEN << >>
  ELSE LET o == MapGet(qs, Head(names)) IN
       IF o = 0 \/ h[o].locked THEN FanoutRest(Tail(names), qs, h) ELSE names

\* The fanout loop from `names` on: suspend at the next publish, or finish.
FanoutLoop(names, kind, running, h, sent) ==
  LET rest == FanoutRest(names, queues, h) IN
  IF rest = << >>
  THEN /\ procs' = running
       /\ out' = sent \o
            << Bcast([type |-> "message_spawned_fanout", message |-> kind]),
               Bcast(getStateForClient(score, spawnRate, queues, h, gameOver)) >>
  ELSE /\ procs' = With(running,
            Proc("fanout", "publish", Head(rest), MapGet(queues, Head(rest)),
                 kind, Tail(rest), Null))
       /\ out' = sent

\* A tick of the spawn interval: spawnMessage() up to its first publish.
SpawnTick ==
  /\ spawnInterval.active > 0
  /\ events' = events + 1
  /\ UNCHANGED << gameVars, timerVars >>
  /\ IF Len(queues) = 0 \/ gameOver
     THEN procs' = procs /\ out' = << >>
     ELSE \E kind \in Kinds :
            IF fanoutMode
            THEN FanoutLoop(MapKeys(queues), kind, procs, heap, << >>)
            ELSE LET unl == UnlockedNames(queues, heap) IN
                 IF unl = << >>
                 THEN procs' = procs /\ out' = << >>
                 ELSE \E i \in 1..Len(unl) :
                        /\ procs' = With(procs,
                             Proc("spawn", "publish", unl[i], MapGet(queues, unl[i]),
                                  kind, << >>, Null))
                        /\ out' = << >>

\* Normal mode after the publish: push, broadcast, lock or snapshot.
SpawnPublished(p) ==
  /\ p \in Running /\ p.op = "spawn"
  /\ LET h1 == Push(heap, p.obj, p.kind)
         h2 == AfterPush(queues, h1, p.obj, p.name)
     IN /\ heap' = h2
        /\ out' = << Bcast([type |-> "message_spawned", queue |-> p.name,
                            message |-> p.kind]) >> \o
                  (IF Len(h1[p.obj].messages) >= LockThreshold
                   THEN LockBroadcast(score, spawnRate, queues, h1, h2, gameOver, p.name)
                   ELSE << Bcast(getStateForClient(score, spawnRate, queues, h1,
                                                   gameOver)) >>)
  /\ procs' = Without(p)
  /\ UNCHANGED << score, spawnRate, fanoutMode, gameOver, queues, queueCounter,
                  timerVars, events >>

\* Fanout mode after a publish: push, lock if full, go on with the loop.
FanoutPublished(p) ==
  /\ p \in Running /\ p.op = "fanout"
  /\ LET h1 == Push(heap, p.obj, p.kind)
         h2 == AfterPush(queues, h1, p.obj, p.name)
     IN /\ heap' = h2
        /\ FanoutLoop(p.names, p.kind, Without(p), h2,
              IF Len(h1[p.obj].messages) >= LockThreshold
              THEN LockBroadcast(score, spawnRate, queues, h1, h2, gameOver, p.name)
              ELSE << >>)
  /\ UNCHANGED << score, spawnRate, fanoutMode, gameOver, queues, queueCounter,
                  timerVars, events >>

\* With this in place of GameOverDue, the callback does not test gameOver.
GameOverDueAlways(q, go) == q.locked

\* The test of the lockTimeout callback: queueData.locked && !gameOver.
GameOverDue(q, go) == q.locked /\ ~go

\* The grace timer of object o fires.  Timers of one object have the same
\* delay, so the oldest fires first: the handle the object holds is the last.
LockTimerFire(o) ==
  /\ o \in 1..Len(heap) /\ heap[o].timers > 0
  /\ heap' = [heap EXCEPT ![o].timers = @ - 1,
                          ![o].lockTimeout =
                             IF @ = "pending" /\ heap[o].timers = 1 THEN "fired" ELSE @]
  /\ IF GameOverDue(heap[o], gameOver)
     THEN /\ gameOver' = TRUE
          /\ out' = << Bcast([type |-> "game_over", reason |-> heap[o].name]),
                       Bcast(getStateForClient(score, spawnRate, queues, heap', TRUE)) >>
     ELSE /\ gameOver' = gameOver
          /\ out' = << >>
  /\ UNCHANGED << score, spawnRate, fanoutMode, queues, queueCounter, timerVars,
                  procs, events >>


\* ------------------------------------------------------ player commands
\* Result sent with broadcast() instead of ws.send().
ResultBroadcast(c, cmd, fields) ==
  Bcast([type |-> "command_result", command |-> cmd] @@ fields)

\* The command_result the message handler sends on its own connection.
Result(c, cmd, fields) ==
  Send(c, [type |-> "command_result", command |-> cmd] @@ fields)

Failure(c, cmd, error) == Result(c, cmd, [success |-> FALSE, error |-> error])

\* A command that fails sends its result and changes nothing.
Fails(c, cmd, error) ==
  /\ out' = << Failure(c, cmd, error) >>
  /\ UNCHANGED << gameVars, procs >>

\* `correct` of handleAck (message.type === 'good') and of handleReject
\* (message.type === 'bad').
Correct(cmd, kind) == kind = (IF cmd = "ack" THEN "good" ELSE "bad")

\* ScoreDelta with the penalty of a wrong action doubled.
ScoreDeltaWrongPenalty(correct) == IF correct THEN CorrectReward ELSE -(2 * WrongPenalty)

\* With this in place of ScoreDelta, a correct action earns 20 points.
ScoreDeltaDouble(correct) == IF correct THEN 20 ELSE -WrongPenalty

\* The change of gameState.score made by handleAck / handleReject.
ScoreDelta(correct) == IF correct THEN CorrectReward ELSE -WrongPenalty

\* scoreChange of the result of handleAck / handleReject.
ScoreChange(correct) == IF correct THEN CorrectReward ELSE -WrongPenalty

\* AckRejectError with the lookup of the queue before the test of gameOver.
AckRejectErrorLookupFirst(go, h, o) ==
  IF o = 0 THEN "not found"
  ELSE IF go THEN "game over"
  ELSE IF h[o].locked THEN "is locked"
  ELSE IF Len(h[o].messages) = 0 THEN "is empty"
  ELSE Null

\* The early returns of handleAck / handleReject, o being queues.get(name):
\* the error of the first check that fails ("game over" for 'Game over! Use
\* /reset to play again.', the others for 'Queue "<name>" ...' with that
\* ending), Null when the command is accepted.
AckRejectError(go, h, o) ==
  IF go THEN "game over"
  ELSE IF o = 0 THEN "not found"
  ELSE IF h[o].locked THEN "is locked"
  ELSE IF Len(h[o].messages) = 0 THEN "is empty"
  ELSE Null

\* With this in place of Shifted, the newest message is removed
\* (messages.pop()).
ShiftedLast(h, o) == [h EXCEPT ![o].messages = SubSeq(@, 1, Len(@) - 1)]

\* queueData.messages.shift()
Shifted(h, o) == [h EXCEPT ![o].messages = Tail(@)]

\* handleAck / handleReject up to the broker await.
AckReject(cmd, name, c) ==
  /\ cmd \in {"ack", "reject"}
  /\ events' = events + 1
  /\ UNCHANGED timerVars
  /\ LET o == MapGet(queues, name)
         error == AckRejectError(gameOver, heap, o) IN
     IF error # Null THEN Fails(c, cmd, error)
     ELSE LET message == Head(heap[o].messages) IN
          /\ heap' = Shifted(heap, o)
          /\ score' = score + ScoreDelta(Correct(cmd, message))
          /\ procs' = With(procs, Proc(cmd, "get", name, o, message, << >>, c))
          /\ out' = << >>
          /\ UNCHANGED << spawnRate, fanoutMode, gameOver, queues, queueCounter >>

\* handleAck / handleReject after the broker await, and the handler's send.
AckRejectDone(p) ==
  /\ p \in Running /\ p.op \in {"ack", "reject"}
  /\ procs' = Without(p)
  /\ out' = << Bcast(getStateForClient(score, spawnRate, queues, heap, gameOver)),
               Result(p.client, p.op,
                      [success |-> TRUE, correct |-> Correct(p.op, p.kind),
                       messageType |-> p.kind,
                       scoreChange |-> ScoreChange(Correct(p.op, p.kind))]) >>
  /\ UNCHANGED << gameVars, timerVars, events >>

\* queueData after the clearTimeout block of handlePurge.
ClearedLockTimeout(q) ==
  IF q.lockTimeout = Null THEN q
  ELSE [q EXCEPT !.lockTimeout = Null,
                 !.timers = IF q.lockTimeout = "pending" THEN @ - 1 ELSE @]

\* PurgedQueueData without `queueData.locked = false`.
PurgedQueueDataStillLocked(q) == [q EXCEPT !.messages = << >>, !.lockedAt = Null]

\* queueData after "clear local messages and unlock".
PurgedQueueData(q) ==
  [q EXCEPT !.messages = << >>, !.locked = FALSE, !.lockedAt = Null]

\* handlePurge up to the broker await.
Purge(name, c) ==
  /\ events' = events + 1
  /\ UNCHANGED timerVars
  /\ LET o == MapGet(queues, name) IN
     IF gameOver THEN Fails(c, "purge", "game over")
     ELSE IF o = 0 THEN Fails(c, "purge", "not found")
     ELSE IF ~heap[o].locked THEN Fails(c, "purge", "is not locked")
     ELSE /\ heap' = [heap EXCEPT ![o] = ClearedLockTimeout(@)]
          /\ score' = score - PurgePenalty
          /\ procs' = With(procs, Proc("purge", "purge", name, o, Null, << >>, c))
          /\ out' = << >>
          /\ UNCHANGED << spawnRate, fanoutMode, gameOver, queues, queueCounter >>

\* handlePurge after the broker await, and the handler's send.
PurgeDone(p) ==
  /\ p \in Running /\ p.op = "purge"
  /\ procs' = Without(p)
  /\ heap' = [heap EXCEPT ![p.obj] = PurgedQueueData(@)]
  /\ out' = << Bcast(getStateForClient(score, spawnRate, queues, heap', gameOver)),
               Result(p.client, "purge",
                      [success |-> TRUE, scoreChange |-> -PurgePenalty]) >>
  /\ UNCHANGED << score, spawnRate, fanoutMode, gameOver, queues, queueCounter,
                  timerVars, events >>

\* Status with the snapshot sent by broadcast() instead of ws.send().
StatusBroadcast(c) ==
  /\ events' = events + 1
  /\ out' = << Bcast(getStateForClient(score, spawnRate, queues, heap, gameOver)) >>
  /\ UNCHANGED << gameVars, timerVars, procs >>

\* The status command.
Status(c) ==
  /\ events' = events + 1
  /\ out' = << Send(c, getStateForClient(score, spawnRate, queues, heap, gameOver)) >>
  /\ UNCHANGED << gameVars, timerVars, procs >>

\* ------------------------------------------------------------ schedulers
\* startSpawnLoop without its clearInterval.
startSpawnLoopNoClear(t) == SetTimer(t)

\* startSpawnLoop(): the interval the variable holds is cleared, a new one is
\* set.
startSpawnLoop(t) == SetTimer(ClearTimer(t))

\* DecreasedSpawnRate without the floor of Math.max.
DecreasedSpawnRateNoFloor(r) == r - SpawnRateStep

\* DecreasedSpawnRate with a step of 100.
DecreasedSpawnRateBy100(r) ==
  IF r - 100 > MinSpawnRate THEN r - 100 ELSE MinSpawnRate

\* Math.max(500, spawnRate - 200)
DecreasedSpawnRate(r) ==
  IF r - SpawnRateStep > MinSpawnRate THEN r - SpawnRateStep ELSE MinSpawnRate

\* A tick of a difficulty interval.
DifficultyTick ==
  /\ difficultyInterval.active > 0
  /\ events' = events + 1
  /\ IF spawnRate > MinSpawnRate
     THEN /\ spawnRate' = DecreasedSpawnRate(spawnRate)
          /\ spawnInterval' = startSpawnLoop(spawnInterval)
          /\ out' = << Bcast([type |-> "difficulty_increased",
                              spawnRate |-> spawnRate']),
                       Bcast(getStateForClient(score, spawnRate', queues, heap,
                                               gameOver)) >>
     ELSE /\ UNCHANGED << spawnRate, spawnInterval >>
          /\ out' = << >>
  /\ UNCHANGED << score, fanoutMode, gameOver, queues, heap, queueCounter,
                  difficultyInterval, newQueueInterval, fanoutInterval, fanoutEnd,
                  procs >>

\* A one-shot timer of a timer variable fires: the held one or a leaked one.
Fired(t, held) == [active |-> t.active - 1, held |-> IF held THEN FALSE ELSE t.held]
CanFire(t, held) == IF held THEN t.held ELSE t.active > (IF t.held THEN 1 ELSE 0)

\* createQueue(name) after the broker await.
CreatedQueues(qs, h, name) == MapSet(qs, name, Len(h) + 1)
CreatedHeap(h, name) == Append(h, NewQueueData(name))
CreateBroadcast(sc, rate, qs, h, go, name) ==
  << Bcast([type |-> "queue_added", name |-> name]),
     Bcast(getStateForClient(sc, rate, CreatedQueues(qs, h, name),
                             CreatedHeap(h, name), go)) >>

\* The timeout of scheduleNextQueue fires: up to the await in createQueue,
\* or, with the map full, to the next scheduleNextQueue.
NewQueueFire ==
  /\ events' = events + 1
  /\ out' = << >>
  /\ \E held \in BOOLEAN :
       /\ CanFire(newQueueInterval, held)
       /\ IF Len(queues) < MaxQueues
          THEN /\ newQueueInterval' = Fired(newQueueInterval, held)
               /\ queueCounter' = queueCounter + 1
               /\ procs' = With(procs,
                    Proc("newQueue", "create", getNextQueueName(queueCounter), 0,
                         Null, << >>, Null))
          ELSE /\ newQueueInterval' = SetTimer(Fired(newQueueInterval, held))
               /\ UNCHANGED << queueCounter, procs >>
  /\ UNCHANGED << score, spawnRate, fanoutMode, gameOver, queues, heap,
                  spawnInterval, difficultyInterval, fanoutInterval, fanoutEnd >>

\* The rest of that callback: the queue is added, the next timeout is set.
NewQueueCreated(p) ==
  /\ p \in Running /\ p.op = "newQueue"
  /\ procs' = Without(p)
  /\ queues' = CreatedQueues(queues, heap, p.name)
  /\ heap' = CreatedHeap(heap, p.name)
  /\ out' = CreateBroadcast(score, spawnRate, queues, heap, gameOver, p.name)
  /\ newQueueInterval' = SetTimer(newQueueInterval)
  /\ UNCHANGED << score, spawnRate, fanoutMode, gameOver, queueCounter,
                  spawnInterval, difficultyInterval, fanoutInterval, fanoutEnd,
                  events >>

\* FanoutTick without the setTimeout that ends fanout mode.
FanoutTickNoEnd ==
  /\ fanoutInterval.active > 0
  /\ events' = events + 1
  /\ fanoutMode' = TRUE
  /\ out' = << Bcast([type |-> "fanout_start"]) >>
  /\ UNCHANGED << score, spawnRate, gameOver, queues, heap, queueCounter,
                  spawnInterval, difficultyInterval, newQueueInterval,
                  fanoutInterval, fanoutEnd, procs >>

\* A tick of a fanout interval.
FanoutTick ==
  /\ fanoutInterval.active > 0
  /\ events' = events + 1
  /\ fanoutMode' = TRUE
  /\ fanoutEnd' = fanoutEnd + 1
  /\ out' = << Bcast([type |-> "fanout_start"]) >>
  /\ UNCHANGED << score, spawnRate, gameOver, queues, heap, queueCounter,
                  spawnInterval, difficultyInterval, newQueueInterval,
                  fanoutInterval, procs >>

\* The 5 s timeout set by a fanout tick fires.
FanoutEnd ==
  /\ fanoutEnd > 0
  /\ fanoutEnd' = fanoutEnd - 1
  /\ fanoutMode' = FALSE
  /\ out' = << Bcast([type |-> "fanout_end"]) >>
  /\ UNCHANGED << score, spawnRate, gameOver, queues, heap, queueCounter,
                  spawnInterval, difficultyInterval, newQueueInterval,
                  fanoutInterval, procs, events >>


\* --------------------------------------------------------------- initGame
\* initGame after cleanupQueues: the map is cleared, the state is reset and
\* the first createQueue is awaiting the broker.
AfterCleanup(running, c) ==
  /\ queues' = << >>
  /\ score' = 0
  /\ spawnRate' = InitialSpawnRate
  /\ fanoutMode' = FALSE
  /\ gameOver' = FALSE
  /\ queueCounter' = 1
  /\ heap' = heap
  /\ procs' = With(running,
       Proc("initGame", "create1", getNextQueueName(0), 0, Null, << >>, c))

\* The reset command: initGame stops the loops and starts cleanupQueues.
Reset(c) ==
  /\ events' = events + 1
  /\ spawnInterval' = ClearTimer(spawnInterval)
  /\ difficultyInterval' = ClearTimer(difficultyInterval)
  /\ newQueueInterval' = ClearTimer(newQueueInterval)
  /\ fanoutInterval' = ClearTimer(fanoutInterval)
  /\ fanoutEnd' = fanoutEnd
  /\ out' = << >>
  /\ IF Len(queues) = 0
     THEN AfterCleanup(procs, c)
     ELSE /\ procs' = With(procs,
               Proc("initGame", "cleanup", Head(MapKeys(queues)), 0, Null,
                    Tail(MapKeys(queues)), c))
          /\ UNCHANGED gameVars

\* cleanupQueues after a queueDelete: the next name, or the end of the loop.
ResetDeleted(p) ==
  /\ p \in Running /\ p.op = "initGame" /\ p.pc = "cleanup"
  /\ out' = << >>
  /\ IF p.names # << >>
     THEN /\ procs' = With(Without(p),
               [p EXCEPT !.name = Head(p.names), !.names = Tail(p.names)])
          /\ UNCHANGED gameVars
     ELSE AfterCleanup(Without(p), p.client)
  /\ UNCHANGED << timerVars, events >>

\* The first createQueue completes; the second one is called.
ResetCreated1(p) ==
  /\ p \in Running /\ p.op = "initGame" /\ p.pc = "create1"
  /\ queues' = CreatedQueues(queues, heap, p.name)
  /\ heap' = CreatedHeap(heap, p.name)
  /\ out' = CreateBroadcast(score, spawnRate, queues, heap, gameOver, p.name)
  /\ queueCounter' = queueCounter + 1
  /\ procs' = With(Without(p),
       Proc("initGame", "create2", getNextQueueName(queueCounter), 0, Null,
            << >>, p.client))
  /\ UNCHANGED << score, spawnRate, fanoutMode, gameOver, timerVars, events >>

\* The second createQueue completes: the loops are started, the state is
\* broadcast, and the command handler sends the result of the reset.
ResetCreated2(p) ==
  /\ p \in Running /\ p.op = "initGame" /\ p.pc = "create2"
  /\ queues' = CreatedQueues(queues, heap, p.name)
  /\ heap' = CreatedHeap(heap, p.name)
  /\ spawnInterval' = startSpawnLoop(spawnInterval)
  /\ difficultyInterval' = SetTimer(difficultyInterval)
  /\ newQueueInterval' = SetTimer(newQueueInterval)
  /\ fanoutInterval' = SetTimer(fanoutInterval)
  /\ out' = CreateBroadcast(score, spawnRate, queues, heap, gameOver, p.name) \o
            << Bcast(getStateForClient(score, spawnRate, queues', heap', gameOver)),
               Result(p.client, "reset", [success |-> TRUE]) >>
  /\ procs' = Without(p)
  /\ UNCHANGED << score, spawnRate, fanoutMode, gameOver, queueCounter, fanoutEnd,
                  events >>

\* ------------------------------------------------------------------- Init
\* A session in play: start() has run initGame() to its end, and spawn ticks,
\* difficulty ticks and commands have run, all to their end.  The two initial
\* queues hold alternating lists of one of these pairs of lengths (a list of
\* 10 is locked, its grace timer pending), and twelve difficulty ticks have
\* brought spawnRate to 600.
InitLengths == { << 9, 0 >>, << 9, 9 >>, << 10, 0 >>, << 10, 2 >> }
InitSpawnRates == { InitialSpawnRate - 12 * SpawnRateStep }

Filled(n) == [i \in 1..n |-> IF i % 2 = 1 THEN "good" ELSE "bad"]

InitQueueData(name, n) ==
  IF n >= LockThreshold
  THEN LockedQueueData([NewQueueData(name) EXCEPT !.messages = Filled(n)])
  ELSE [NewQueueData(name) EXCEPT !.messages = Filled(n)]

Running1 == [active |-> 1, held |-> TRUE]

Init ==
  /\ score = 0
  /\ spawnRate \in InitSpawnRates
  /\ fanoutMode = FALSE
  /\ gameOver = FALSE
  /\ queueCounter = InitialQueues
  /\ queues = [i \in 1..InitialQueues |->
                 [name |-> getNextQueueName(i - 1), obj |-> i]]
  /\ \E n \in InitLengths :
       heap = << InitQueueData(getNextQueueName(0), n[1]),
                 InitQueueData(getNextQueueName(1), n[2]) >>
  /\ spawnInterval = Running1
  /\ difficultyInterval = Running1
  /\ newQueueInterval = Running1
  /\ fanoutInterval = Running1
  /\ fanoutEnd = 0
  /\ procs = EmptyBag
  /\ out = << >>
  /\ events = 0
  /\ ChatConstructed

\* Timer ticks and commands are taken while the budget of events lasts; the
\* completion of a broker await and the firing of a one-shot timer set by an
\* earlier action are always possible.
Budget == events < MaxEvents

Next ==
  \/ Budget /\ SpawnTick /\ UNCHANGED chatVars
  \/ Budget /\ DifficultyTick /\ UNCHANGED chatVars
  \/ Budget /\ NewQueueFire /\ UNCHANGED chatVars
  \/ Budget /\ FanoutTick /\ UNCHANGED chatVars
  \/ Budget /\ \E cmd \in {"ack", "reject"}, name \in CommandNames, c \in Clients :
                 AckReject(cmd, name, c) /\ UNCHANGED chatVars
  \/ Budget /\ \E name \in CommandNames, c \in Clients : Purge(name, c) /\ UNCHANGED chatVars
  \/ Budget /\ \E c \in Clients : Status(c) /\ UNCHANGED chatVars
  \/ Budget /\ \E c \in Clients : Reset(c) /\ UNCHANGED chatVars
  \/ \E p \in Running : SpawnPublished(p) /\ UNCHANGED chatVars
  \/ \E p \in Running : FanoutPublished(p) /\ UNCHANGED chatVars
  \/ \E p \in Running : AckRejectDone(p) /\ UNCHANGED chatVars
  \/ \E p \in Running : PurgeDone(p) /\ UNCHANGED chatVars
  \/ \E p \in Running : ResetDeleted(p) /\ UNCHANGED chatVars
  \/ \E p \in Running : ResetCreated1(p) /\ UNCHANGED chatVars
  \/ \E p \in Running : ResetCreated2(p) /\ UNCHANGED chatVars
  \/ \E p \in Running : NewQueueCreated(p) /\ UNCHANGED chatVars
  \/ \E o \in 1..Len(heap) : LockTimerFire(o) /\ UNCHANGED chatVars
  \/ FanoutEnd /\ UNCHANGED chatVars

Spec == Init /\ [][Next]_vars


\* ================================================================ claims
\* The objects the session's map holds.
InMap(o) == \E i \in 1..Len(queues) : queues[i].obj = o
Objects == 1..Len(heap)
Broadcasts(type) ==
  { out[i].msg : i \in { j \in 1..Len(out) : out[j].to = "all" /\ out[j].msg.type = type } }
Results(cmd) ==
  { out[i].msg : i \in { j \in 1..Len(out) :
       out[j].msg.type = "command_result" /\ out[j].msg.command = cmd } }
PurgingObject(o) == \E p \in Running : p.op = "purge" /\ p.obj = o

\* C1: every queue of the session holds at most 10 messages, a queue that
\* holds 10 is locked, and a queue of 10 stays locked until the end of a
\* purge of it (or the reset that removes it).
C1_AtMostTenAndLocked ==
  /\ [](\A i \in 1..Len(queues) :
          /\ Len(heap[queues[i].obj].messages) <= LockThreshold
          /\ Len(heap[queues[i].obj].messages) = LockThreshold
               => heap[queues[i].obj].locked)
  /\ [][\A o \in Objects :
          (InMap(o) /\ heap[o].locked /\ InMap(o)' /\ ~heap'[o].locked)
            => PurgingObject(o)]_vars

\* C2: a grace timer of a queue object that a reset has removed from the
\* session does nothing when it fires: gameOver keeps its value and nothing
\* is broadcast.
C2_StaleGraceTimerIgnored ==
  [][\A o \in Objects :
       (LockTimerFire(o) /\ ~InMap(o)) => (gameOver' = gameOver /\ out' = << >>)]_vars


\* A process of this kind has started / has ended in the step.
Started(p) == CopiesIn(p, procs') > CopiesIn(p, procs)
Ended(p) == CopiesIn(p, procs') < CopiesIn(p, procs)
StartedProcs == { p \in BagToSet(procs') : Started(p) }
EndedProcs == { p \in BagToSet(procs) : Ended(p) }

\* C4: while gameOver is true, no step changes the score, or the messages or
\* the lock flag of a queue of the session, and every ack, reject and purge
\* is answered with a failure.
C4_NoMutationWhileGameOver ==
  [][gameOver =>
       /\ gameOver' =>
            /\ score' = score
            /\ \A o \in Objects : (InMap(o) /\ InMap(o)') =>
                 /\ heap'[o].messages = heap[o].messages
                 /\ heap'[o].locked = heap[o].locked
       /\ \A p \in StartedProcs : p.op \notin {"ack", "reject", "purge", "spawn", "fanout"}
    ]_vars

C6_Delta(cmd, kind) ==
  IF (cmd = "ack" /\ kind = "good") \/ (cmd = "reject" /\ kind = "bad") THEN 10 ELSE -5

C6_AckRejectScore ==
  [][/\ \A p \in StartedProcs : p.op \in {"ack", "reject"} =>
          /\ heap[p.obj].messages # << >>
          /\ p.kind = Head(heap[p.obj].messages)
          /\ heap'[p.obj].messages = Tail(heap[p.obj].messages)
          /\ score' - score = C6_Delta(p.op, p.kind)
     /\ \A p \in EndedProcs : p.op \in {"ack", "reject"} =>
          /\ score' = score
          /\ Results(p.op)' =
               {[type |-> "command_result", command |-> p.op, success |-> TRUE,
                 correct |-> (C6_Delta(p.op, p.kind) = 10),
                 messageType |-> p.kind,
                 scoreChange |-> C6_Delta(p.op, p.kind)]}
     /\ \A cmd \in {"ack", "reject"} : \A r \in Results(cmd)' :
          r.success => \E p \in EndedProcs : p.op = cmd
    ]_vars

\* C6 witness: a reject of a good message has just ended: correct = false,
\* scoreChange = -5, and the score, which was 0, is -5.
C6_Witness ==
  /\ \E r \in Results("reject") :
       r.success /\ ~r.correct /\ r.messageType = "good" /\ r.scoreChange = -5
  /\ score = -5

\* C7: when a reset ends (its command_result is sent) the session has
\* spawnRate 3000, score 0, gameOver false, fanoutMode false and exactly two
\* queues, both empty and unlocked.
C7_ResetYieldsFreshSession ==
  Results("reset") # {} =>
    /\ spawnRate = 3000 /\ score = 0 /\ ~gameOver /\ ~fanoutMode
    /\ Len(queues) = 2
    /\ \A i \in 1..Len(queues) :
         heap[queues[i].obj].messages = << >> /\ ~heap[queues[i].obj].locked

\* A mutation that has changed the session and has more changes to make: a
\* purge between its penalty and its unlock, a reset between clearing the
\* map and creating its second queue.
PartiallyApplied ==
  \E p \in Running :
    \/ p.op = "purge"
    \/ p.op = "initGame" /\ p.pc \in {"create1", "create2"}

Snapshots == { out[i].msg : i \in { j \in 1..Len(out) : out[j].msg.type = "state" } }

\* C8: no snapshot is sent (broadcast, or as the answer to status) while a
\* mutation is partially applied.
C8_NoPartialSnapshot == Snapshots # {} => ~PartiallyApplied

C10_LockedQueueFrozen ==
  [][/\ \A o \in Objects :
          (InMap(o) /\ InMap(o)' /\ heap[o].locked
             /\ heap'[o].messages # heap[o].messages)
          => \E p \in EndedProcs : p.op = "purge" /\ p.obj = o
     /\ \A p \in StartedProcs : p.op \in {"ack", "reject"} => ~heap[p.obj].locked
    ]_vars


\* C3: when a queue object becomes locked, queue_locked is broadcast with
\* its name and lockedAt and one more grace timer is pending for it; a grace
\* timer that fires while its object is locked and gameOver is false sets
\* gameOver and broadcasts game_over with the queue's name; and only the
\* timer of the current lock of a queue can set gameOver: a timer whose lock
\* was ended by a purge (the object is unlocked, or it is not the timer the
\* object holds) never does.
C3_GraceTimer ==
  [][/\ \A o \in Objects : (~heap[o].locked /\ heap'[o].locked) =>
          /\ heap'[o].lockedAt # Null
          /\ [type |-> "queue_locked", name |-> heap[o].name,
              lockedAt |-> heap'[o].lockedAt] \in Broadcasts("queue_locked")'
          /\ heap'[o].timers = heap[o].timers + 1
     /\ \A o \in Objects : (LockTimerFire(o) /\ heap[o].locked /\ ~gameOver) =>
          /\ gameOver'
          /\ [type |-> "game_over", reason |-> heap[o].name] \in Broadcasts("game_over")'
     /\ \A o \in Objects : (LockTimerFire(o) /\ gameOver' # gameOver) =>
          /\ heap[o].locked
          /\ heap[o].lockTimeout = "pending"
          /\ heap[o].timers = 1
    ]_vars

\* ------------------------------------------------------------- SpecRelock
\* The session with a slow broker and a fast player: spawn ticks, one at a
\* time, that draw a good message for lemming-1, purge commands for
\* lemming-1, at most two of them awaiting the broker, and the grace timers.
MaxRelockEvents == 22

Lemming1 == getNextQueueName(0)

RelockSpawnTick ==
  /\ events < MaxRelockEvents
  /\ ~\E p \in Running : p.op = "spawn"
  /\ SpawnTick
  /\ \A p \in StartedProcs : p.kind = "good" /\ p.name = Lemming1

RelockPurge ==
  /\ events < MaxRelockEvents
  /\ \A p \in Running : p.op = "purge" => CopiesIn(p, procs) < 2
  /\ \E c \in Clients : Purge(Lemming1, c)

NextRelock ==
  \/ RelockSpawnTick /\ UNCHANGED chatVars
  \/ RelockPurge /\ UNCHANGED chatVars
  \/ \E p \in Running : SpawnPublished(p) /\ UNCHANGED chatVars
  \/ \E p \in Running : PurgeDone(p) /\ UNCHANGED chatVars
  \/ \E o \in 1..Len(heap) : LockTimerFire(o) /\ UNCHANGED chatVars

SpecRelock == Init /\ [][NextRelock]_vars

\* ------------------------------------------------------- SpecBrokerFails
\* The session with a broker whose calls may fail.  handleAck, handleReject,
\* handlePurge and cleanupQueues wrap their broker calls in try / catch with
\* an empty handler, so for them a call that fails continues exactly as one
\* that succeeds: AckRejectDone, PurgeDone and ResetDeleted are both outcomes.
\* basicPublish in spawnMessage and channel.queue in createQueue are awaited
\* outside any try: their failure rejects the async function at that line.

\* basicPublish rejects: spawnMessage ends before its push and its broadcasts
\* (the interval callback does not handle the rejection).
SpawnPublishFailed(p) ==
  /\ p \in Running /\ p.op \in {"spawn", "fanout"}
  /\ procs' = Without(p)
  /\ out' = << >>
  /\ UNCHANGED << gameVars, timerVars, events >>

\* channel.queue rejects in createQueue: nothing is put in the map.  In the
\* queue-lifecycle callback scheduleNextQueue() is not reached; in initGame
\* the rest of the function is skipped, the command handler's catch logs the
\* error and sends nothing.
CreateQueueFailed(p) ==
  /\ p \in Running
  /\ \/ p.op = "newQueue"
     \/ p.op = "initGame" /\ p.pc \in {"create1", "create2"}
  /\ procs' = Without(p)
  /\ out' = << >>
  /\ UNCHANGED << gameVars, timerVars, events >>

NextBrokerFails ==
  \/ Next
  \/ \E p \in Running : SpawnPublishFailed(p) /\ UNCHANGED chatVars
  \/ \E p \in Running : CreateQueueFailed(p) /\ UNCHANGED chatVars

SpecBrokerFails == Init /\ [][NextBrokerFails]_vars

\* C11: whatever the broker answers, a spawn that was awaiting its publish
\* ends with its message appended to its queue, an ack or reject that ends
\* has popped and scored and sends its success, a purge that ends leaves its
\* queue empty and unlocked, and an initGame that ends has put the queue it
\* was creating in the map, has the four schedulers running and has its
\* reset answered.
C11_BrokerFailureHarmless ==
  [][\A p \in EndedProcs :
       /\ p.op \in {"spawn", "fanout"} =>
            heap'[p.obj].messages = Append(heap[p.obj].messages, p.kind)
       /\ p.op \in {"ack", "reject"} =>
            \E r \in Results(p.op)' : r.success /\ r.messageType = p.kind
       /\ p.op = "purge" =>
            heap'[p.obj].messages = << >> /\ ~heap'[p.obj].locked
       /\ (p.op = "initGame" /\ ~\E q \in StartedProcs : q.op = "initGame") =>
            /\ MapHas(queues', p.name)
            /\ spawnInterval'.held /\ difficultyInterval'.held
            /\ newQueueInterval'.held /\ fanoutInterval'.held
            /\ Results("reset")' # {}
    ]_vars

\* C12: when a reset ends, exactly one spawn, one difficulty, one
\* queue-lifecycle and one fanout timer are active, and nothing that a
\* scheduler started before is left to act on the session: no fanout-end
\* timeout is pending and no queue-lifecycle callback is awaiting the broker.
C12_OneTimerEachAfterReset ==
  Results("reset") # {} =>
    /\ spawnInterval.active = 1
    /\ difficultyInterval.active = 1
    /\ newQueueInterval.active = 1
    /\ fanoutInterval.active = 1
    /\ fanoutEnd = 0
    /\ ~\E p \in Running : p.op = "newQueue"

\* C13: at most one spawn timer is active in every state, and a step that
\* changes spawnRate (a difficulty tick, a reset) leaves at most one.
C13_OneSpawnTimer ==
  /\ [](spawnInterval.active <= 1)
  /\ [][spawnRate' < spawnRate =>
          spawnInterval'.active = 1 /\ spawnInterval'.held]_vars

\* C13 witness: a difficulty tick has just restarted the spawn loop after a
\* reset (spawnRate 2800), and one spawn timer is active.
C13_Witness ==
  /\ [type |-> "difficulty_increased", spawnRate |-> InitialSpawnRate - SpawnRateStep]
       \in Broadcasts("difficulty_increased")
  /\ spawnInterval = [active |-> 1, held |-> TRUE]

\* C14: an operation that was awaiting the broker when a reset replaced the
\* session (the queue object of a spawn, ack, reject or purge is no longer in
\* the map; the name of a queue being created is ahead of the restarted
\* queueCounter) ends without changing the new session: the map, the score
\* and the messages and lock flag of every queue of the map stay as they are.
C14_StaleCompletionDiscarded ==
  [][\A p \in EndedProcs :
       (\/ p.op \in {"spawn", "fanout", "ack", "reject", "purge"} /\ ~InMap(p.obj)
        \/ p.op = "newQueue" /\ p.name[2] > queueCounter)
       => /\ queues' = queues
          /\ score' = score
          /\ \A o \in Objects : InMap(o) =>
               /\ heap'[o].messages = heap[o].messages
               /\ heap'[o].locked = heap[o].locked
    ]_vars

\* C15: while gameOver stays true, spawnRate, fanoutMode and the names of the
\* queues of the session do not change.
C15_TerminalUntilReset ==
  [][(gameOver /\ gameOver') =>
       /\ spawnRate' = spawnRate
       /\ fanoutMode' = fanoutMode
       /\ MapKeys(queues') = MapKeys(queues)]_vars

\* C16: an ack or reject of queue `name` fails with the first of: game over
\* when gameOver is true, not found when the map has no such queue, is locked
\* when the queue is locked, is empty when its list is empty; and a command
\* that fails sends its failure to the client that issued it and nothing
\* else, broadcasts nothing, and leaves score, gameOver, the map, the queues
\* and the pending operations unchanged.
C16_AckRejectFailures ==
  [][\A cmd \in {"ack", "reject"}, name \in CommandNames, c \in Clients :
       AckReject(cmd, name, c) =>
         LET o == MapGet(queues, name)
             expected ==
               IF gameOver THEN "game over"
               ELSE IF ~MapHas(queues, name) THEN "not found"
               ELSE IF heap[o].locked THEN "is locked"
               ELSE IF heap[o].messages = << >> THEN "is empty"
               ELSE "none"
         IN IF expected = "none"
            THEN Results(cmd)' = {} /\ \E p \in StartedProcs : p.op = cmd
            ELSE /\ out' = << [to |-> c,
                               msg |-> [type |-> "command_result", command |-> cmd,
                                        success |-> FALSE, error |-> expected]] >>
                 /\ UNCHANGED << score, gameOver, queues, heap, spawnRate, fanoutMode,
                                 procs >>
    ]_vars

\* C16 witness: an ack of the empty queue lemur-2 has just failed with
\* "is empty", in a session that is not over and whose queue lemming-1 holds
\* its nine messages.
C16_Witness ==
  /\ out = << [to |-> "c1",
               msg |-> [type |-> "command_result", command |-> "ack",
                        success |-> FALSE, error |-> "is empty"]] >>
  /\ ~gameOver
  /\ Len(queues) = 2
  /\ heap[queues[2].obj].messages = << >>
  /\ Len(heap[queues[1].obj].messages) = 9

\* ----------------------------------------------------------- SpecObservers
\* The session with two connections, each of which sends commands: the
\* commands, their continuations and the grace timers.
MaxObserverEvents == 3

wsClients == {"c1", "c2"}

ObserverBudget == events < MaxObserverEvents

NextObservers ==
  \/ ObserverBudget /\ \E cmd \in {"ack", "reject"}, name \in CommandNames,
                          c \in wsClients : AckReject(cmd, name, c) /\ UNCHANGED chatVars
  \/ ObserverBudget /\ \E name \in CommandNames, c \in wsClients : Purge(name, c) /\ UNCHANGED chatVars
  \/ ObserverBudget /\ \E c \in wsClients : Status(c) /\ UNCHANGED chatVars
  \/ ObserverBudget /\ \E c \in wsClients : Reset(c) /\ UNCHANGED chatVars
  \/ \E p \in Running : AckRejectDone(p) /\ UNCHANGED chatVars
  \/ \E p \in Running : PurgeDone(p) /\ UNCHANGED chatVars
  \/ \E p \in Running : ResetDeleted(p) /\ UNCHANGED chatVars
  \/ \E p \in Running : ResetCreated1(p) /\ UNCHANGED chatVars
  \/ \E p \in Running : ResetCreated2(p) /\ UNCHANGED chatVars
  \/ \E o \in 1..Len(heap) : LockTimerFire(o) /\ UNCHANGED chatVars

SpecObservers == Init /\ [][NextObservers]_vars

\* The async function that answers command `cmd`.
C17_Op(cmd) == IF cmd = "reset" THEN "initGame" ELSE cmd

\* C17: a connection d receives a command_result (sent to it, or broadcast)
\* only in a step that ends a command d issued or that rejects a command of d
\* at once.
C17_ResultToIssuerOnly ==
  [][\A d \in wsClients : \A i \in 1..Len(out') :
       (out'[i].msg.type = "command_result" /\ out'[i].to \in {"all", d}) =>
         \/ \E p \in EndedProcs :
              p.client = d /\ p.op = C17_Op(out'[i].msg.command)
         \/ /\ ~out'[i].msg.success
            /\ \E name \in CommandNames :
                 \/ AckReject(out'[i].msg.command, name, d)
                 \/ out'[i].msg.command = "purge" /\ Purge(name, d)
    ]_vars

\* C17 witness: the ack of c2 has just ended: the snapshot went to every
\* connection, the command_result to c2 alone.
C17_Witness ==
  /\ Len(out) = 2
  /\ out[1].to = "all" /\ out[1].msg.type = "state"
  /\ out[2].to = "c2" /\ out[2].msg.type = "command_result"
  /\ out[2].msg.command = "ack" /\ out[2].msg.success

\* ----------------------------------------------------------- SpecLifecycle
\* The session's queue-lifecycle timeouts and resets, with their broker
\* awaits: resets among the first events, then a game long enough for the
\* map to fill up.
MaxLifecycleEvents == 10
MaxLifecycleResets == 2

LifecycleBudget == events < MaxLifecycleEvents
LifecycleResetBudget == events < MaxLifecycleResets

NextLifecycle ==
  \/ LifecycleBudget /\ NewQueueFire /\ UNCHANGED chatVars
  \/ LifecycleResetBudget /\ \E c \in Clients : Reset(c) /\ UNCHANGED chatVars
  \/ \E p \in Running : NewQueueCreated(p) /\ UNCHANGED chatVars
  \/ \E p \in Running : ResetDeleted(p) /\ UNCHANGED chatVars
  \/ \E p \in Running : ResetCreated1(p) /\ UNCHANGED chatVars
  \/ \E p \in Running : ResetCreated2(p) /\ UNCHANGED chatVars

SpecLifecycle == Init /\ [][NextLifecycle]_vars

\* C18: the map never holds more than 10 queues.
C18_AtMostTenQueues == Len(queues) <= MaxQueues

\* ---------------------------------------------------------- SpecSpawnAlone
\* The session with a broker that answers before the next timer or command
\* arrives: a spawn tick runs spawnMessage() from its first line to its last
\* in one step.
MaxSpawnEvents == 4

\* The fanout loop from `names` on, run to its end: the heap it leaves.
RECURSIVE FanoutAll(_, _, _, _)
FanoutAll(names, qs, h, kind) ==
  LET rest == FanoutRest(names, qs, h) IN
  IF rest = << >> THEN h
  ELSE LET o == MapGet(qs, Head(rest))
           h1 == Push(h, o, kind)
       IN FanoutAll(Tail(rest), qs, AfterPush(qs, h1, o, Head(rest)), kind)

\* What that loop broadcasts: the lock of every queue it fills up.
RECURSIVE FanoutAllOut(_, _, _, _)
FanoutAllOut(names, qs, h, kind) ==
  LET rest == FanoutRest(names, qs, h) IN
  IF rest = << >> THEN << >>
  ELSE LET o == MapGet(qs, Head(rest))
           h1 == Push(h, o, kind)
           h2 == AfterPush(qs, h1, o, Head(rest))
       IN (IF Len(h1[o].messages) >= LockThreshold
           THEN LockBroadcast(score, spawnRate, qs, h1, h2, gameOver, Head(rest))
           ELSE << >>) \o FanoutAllOut(Tail(rest), qs, h2, kind)

\* spawnMessage() from start to end.
SpawnAlone ==
  /\ spawnInterval.active > 0
  /\ events' = events + 1
  /\ UNCHANGED << score, spawnRate, fanoutMode, gameOver, queues, queueCounter,
                  timerVars, procs >>
  /\ IF Len(queues) = 0 \/ gameOver
     THEN heap' = heap /\ out' = << >>
     ELSE \E kind \in Kinds :
            IF fanoutMode
            THEN /\ heap' = FanoutAll(MapKeys(queues), queues, heap, kind)
                 /\ out' = FanoutAllOut(MapKeys(queues), queues, heap, kind) \o
                      << Bcast([type |-> "message_spawned_fanout", message |-> kind]),
                         Bcast(getStateForClient(score, spawnRate, queues, heap',
                                                 gameOver)) >>
            ELSE LET unl == UnlockedNames(queues, heap) IN
                 IF unl = << >>
                 THEN heap' = heap /\ out' = << >>
                 ELSE \E i \in 1..Len(unl) :
                        LET o == MapGet(queues, unl[i])
                            h1 == Push(heap, o, kind)
                            h2 == AfterPush(queues, h1, o, unl[i])
                        IN /\ heap' = h2
                           /\ out' =
                                << Bcast([type |-> "message_spawned", queue |-> unl[i],
                                          message |-> kind]) >> \o
                                (IF Len(h1[o].messages) >= LockThreshold
                                 THEN LockBroadcast(score, spawnRate, queues, h1, h2,
                                                    gameOver, unl[i])
                                 ELSE << Bcast(getStateForClient(score, spawnRate, queues,
                                                                 h1, gameOver)) >>)

SpawnBudget == events < MaxSpawnEvents

NextSpawnAlone ==
  \/ SpawnBudget /\ SpawnAlone /\ UNCHANGED chatVars
  \/ SpawnBudget /\ FanoutTick /\ UNCHANGED chatVars
  \/ FanoutEnd /\ UNCHANGED chatVars
  \/ \E o \in 1..Len(heap) : LockTimerFire(o) /\ UNCHANGED chatVars

SpecSpawnAlone == Init /\ [][NextSpawnAlone]_vars

\* The queue objects of the map that are unlocked.
C19_Unlocked == { o \in Objects : InMap(o) /\ ~heap[o].locked }

MaxFanoutEvents == 3

FanoutBudget == events < MaxFanoutEvents

NextFanout ==
  \/ FanoutBudget /\ FanoutTick /\ UNCHANGED chatVars
  \/ FanoutBudget /\ \E c \in Clients : Reset(c) /\ UNCHANGED chatVars
  \/ \E p \in Running : ResetDeleted(p) /\ UNCHANGED chatVars
  \/ \E p \in Running : ResetCreated1(p) /\ UNCHANGED chatVars
  \/ \E p \in Running : ResetCreated2(p) /\ UNCHANGED chatVars
  \/ FanoutEnd /\ UNCHANGED chatVars

SpecFanout == Init /\ [][NextFanout]_vars /\ WF_vars(FanoutEnd /\ UNCHANGED chatVars)

\* C20: fanoutMode becomes true only in a step that broadcasts fanout_start,
\* a step that broadcasts fanout_end leaves it false, and whenever fanoutMode
\* is true a later step broadcasts fanout_end and leaves fanoutMode false.
C20_FanoutEnds ==
  /\ [][(~fanoutMode /\ fanoutMode') =>
          [type |-> "fanout_start"] \in Broadcasts("fanout_start")']_vars
  /\ [][[type |-> "fanout_start"] \in Broadcasts("fanout_start")' => fanoutMode']_vars
  /\ [][[type |-> "fanout_end"] \in Broadcasts("fanout_end")' => ~fanoutMode']_vars
  /\ (fanoutMode ~> (~fanoutMode /\ Broadcasts("fanout_end") # {}))

\* C20 witness: the timeout of a fanout tick has just fired: fanout_end is
\* broadcast, fanoutMode is false and no other end timeout is pending.
C20_Witness ==
  /\ [type |-> "fanout_end"] \in Broadcasts("fanout_end")
  /\ ~fanoutMode
  /\ fanoutEnd = 0
  /\ events >= 1

\* A snapshot of the session as the step leaves it is broadcast in the step.
BroadcastsNewState ==
  \E i \in 1..Len(out') :
    /\ out'[i].to = "all"
    /\ out'[i].msg = getStateForClient(score', spawnRate', queues', heap', gameOver')

\* The step changes what a snapshot shows.
ChangesSession ==
  getStateForClient(score', spawnRate', queues', heap', gameOver')
    # getStateForClient(score, spawnRate, queues, heap, gameOver)

\* C21: snapshots are broadcast in the order of the mutations they are for:
\* while an accepted ack or reject (its pop and its score change are applied,
\* its snapshot is not yet broadcast) awaits the broker, no step applies a
\* later mutation and broadcasts the snapshot for it.
C21_BroadcastOrder ==
  [][(ChangesSession /\ BroadcastsNewState) =>
       ~\E q \in Running : q.op \in {"ack", "reject"} /\ ~Ended(q)]_vars

\* C22: every snapshot that is sent carries the fanout flag of the session,
\* next to score, spawnRate, gameOver and the queues.
C22_SnapshotFields ==
  \A s \in Snapshots :
    /\ DOMAIN s \cap {"fanoutMode", "fanoutActive"} # {}
    /\ {"score", "spawnRate", "gameOver", "queues"} \subseteq DOMAIN s

C24_StatusFrame ==
  /\ [][\A c \in wsClients : Status(c) =>
          /\ UNCHANGED << score, spawnRate, fanoutMode, gameOver, queues, heap,
                          queueCounter, spawnInterval, difficultyInterval,
                          newQueueInterval, fanoutInterval, fanoutEnd, procs >>
          /\ Len(out') = 1
          /\ out'[1].to = c
          /\ out'[1].msg.type = "state"
          /\ out'[1].msg.score = score
          /\ out'[1].msg.spawnRate = spawnRate
          /\ out'[1].msg.gameOver = gameOver
          /\ Len(out'[1].msg.queues) = Len(queues)
          /\ \A i \in 1..Len(queues) :
               /\ out'[1].msg.queues[i].name = queues[i].name
               /\ out'[1].msg.queues[i].messages = heap[queues[i].obj].messages
               /\ out'[1].msg.queues[i].locked = heap[queues[i].obj].locked]_vars
  /\ [](\A c \in wsClients : ENABLED Status(c))

\* C24 witness: c2 has just been sent the answer to its status command in a
\* session that is over, while c1's reset awaits the broker.
C24_Witness ==
  /\ Len(out) = 1
  /\ out[1].to = "c2" /\ out[1].msg.type = "state" /\ out[1].msg.gameOver
  /\ gameOver
  /\ \E p \in Running : p.op = "initGame" /\ p.client = "c1"

\* C25: the k-th queue of the session's map is named <animal>-<k>, animal
\* being entry (k - 1) mod 15 of the pool.
C25_QueueNames ==
  \A k \in 1..Len(queues) :
    queues[k].name = << ANIMAL_NAMES[((k - 1) % 15) + 1], k >>

\* spawnRate after k difficulty ticks from the rate of a reset.
RECURSIVE C30_RateAfter(_)
C30_RateAfter(k) ==
  IF k = 0 THEN InitialSpawnRate ELSE DecreasedSpawnRate(C30_RateAfter(k - 1))

MaxSimpleEvents == 3
OverflowPenalty == 100
OverflowThreshold == 10

\* getStateForClient() of the variant.
getStateForClientSimple(sc, rate, qs, h) ==
  [type |-> "state",
   score |-> sc,
   spawnRate |-> rate,
   queues |-> [i \in 1..Len(qs) |->
                 [name |-> qs[i].name, messages |-> h[qs[i].obj].messages]]]

SimpleUnused == << spawnRate, fanoutMode, gameOver, queues, queueCounter, timerVars >>

\* A tick of the spawn interval: spawnMessage() up to its publish.
SimpleSpawnTick ==
  /\ spawnInterval.active > 0
  /\ events' = events + 1
  /\ out' = << >>
  /\ UNCHANGED << score, heap, SimpleUnused >>
  /\ IF Len(queues) = 0 THEN procs' = procs
     ELSE \E i \in 1..Len(queues), kind \in Kinds :
            procs' = With(procs,
              Proc("spawn", "publish", queues[i].name, queues[i].obj, kind, << >>, Null))

\* spawnMessage() after the publish: push, broadcast, and at 10 messages
\* handleOverflow(name) up to its broker await.
SimpleSpawnPublished(p) ==
  /\ p \in Running /\ p.op = "spawn"
  /\ heap' = Push(heap, p.obj, p.kind)
  /\ UNCHANGED << SimpleUnused, events >>
  /\ LET spawned == Bcast([type |-> "message_spawned", queue |-> p.name,
                           message |-> p.kind])
         o == MapGet(queues, p.name)
     IN IF Len(heap'[p.obj].messages) >= OverflowThreshold
        THEN IF o = 0
             THEN /\ score' = score
                  /\ procs' = Without(p)
                  /\ out' = << spawned >>
             ELSE /\ score' = score - OverflowPenalty
                  /\ procs' = With(Without(p),
                       Proc("overflow", "purge", p.name, o, Null, << >>, Null))
                  /\ out' = << spawned >>
        ELSE /\ score' = score
             /\ procs' = Without(p)
             /\ out' = << spawned,
                          Bcast(getStateForClientSimple(score, spawnRate, queues, heap')) >>

\* handleOverflow(name) after the broker purge.
SimpleOverflowPurged(p) ==
  /\ p \in Running /\ p.op = "overflow"
  /\ heap' = [heap EXCEPT ![p.obj].messages = << >>]
  /\ procs' = Without(p)
  /\ out' = << Bcast([type |-> "queue_overflow", name |-> p.name,
                      scoreChange |-> -OverflowPenalty]),
               Bcast(getStateForClientSimple(score, spawnRate, queues, heap')) >>
  /\ UNCHANGED << score, SimpleUnused, events >>

\* handleAck / handleReject of the variant up to the broker await.
SimpleAckReject(cmd, name, c) ==
  /\ cmd \in {"ack", "reject"}
  /\ events' = events + 1
  /\ UNCHANGED SimpleUnused
  /\ LET o == MapGet(queues, name) IN
     IF o = 0 THEN Fails(c, cmd, "not found")
     ELSE IF Len(heap[o].messages) = 0 THEN Fails(c, cmd, "is empty")
     ELSE LET message == Head(heap[o].messages) IN
          /\ heap' = [heap EXCEPT ![o].messages = Tail(@)]
          /\ score' = score + ScoreDelta(Correct(cmd, message))
          /\ procs' = With(procs, Proc(cmd, "get", name, o, message, << >>, c))
          /\ out' = << >>

\* handleAck / handleReject of the variant after the broker await.
SimpleAckRejectDone(p) ==
  /\ p \in Running /\ p.op \in {"ack", "reject"}
  /\ procs' = Without(p)
  /\ out' = << Bcast(getStateForClientSimple(score, spawnRate, queues, heap)),
               Result(p.client, p.op,
                      [success |-> TRUE, correct |-> Correct(p.op, p.kind),
                       messageType |-> p.kind,
                       scoreChange |-> ScoreChange(Correct(p.op, p.kind))]) >>
  /\ UNCHANGED << score, heap, SimpleUnused, events >>

\* The variant's session in play: two queues, none at 10 messages.
SimpleInitLengths == { << 9, 0 >>, << 9, 9 >>, << 8, 1 >> }

InitSimple ==
  /\ score = 0
  /\ spawnRate \in InitSpawnRates
  /\ fanoutMode = FALSE
  /\ gameOver = FALSE
  /\ queueCounter = InitialQueues
  /\ queues = [i \in 1..InitialQueues |->
                 [name |-> getNextQueueName(i - 1), obj |-> i]]
  /\ \E n \in SimpleInitLengths :
       heap = << [NewQueueData(getNextQueueName(0)) EXCEPT !.messages = Filled(n[1])],
                 [NewQueueData(getNextQueueName(1)) EXCEPT !.messages = Filled(n[2])] >>
  /\ spawnInterval = Running1
  /\ difficultyInterval = Running1
  /\ newQueueInterval = Running1
  /\ fanoutInterval = [active |-> 0, held |-> FALSE]
  /\ fanoutEnd = 0
  /\ procs = EmptyBag
  /\ out = << >>
  /\ events = 0
  /\ ChatConstructed

SimpleBudget == events < MaxSimpleEvents

NextSimple ==
  \/ SimpleBudget /\ SimpleSpawnTick /\ UNCHANGED chatVars
  \/ SimpleBudget /\ \E cmd \in {"ack", "reject"}, name \in CommandNames, c \in Clients :
                       SimpleAckReject(cmd, name, c) /\ UNCHANGED chatVars
  \/ \E p \in Running : SimpleSpawnPublished(p) /\ UNCHANGED chatVars
  \/ \E p \in Running : SimpleOverflowPurged(p) /\ UNCHANGED chatVars
  \/ \E p \in Running : SimpleAckRejectDone(p) /\ UNCHANGED chatVars

SpecSimple == InitSimple /\ [][NextSimple]_vars

\* C26: in the variant no queue of the map ever holds more than 10 messages;
\* an overflow starts when a spawn has brought a queue to exactly 10, lowers
\* the score by exactly 100 and is the only overflow of that queue under way;
\* when it ends the queue is empty and queue_overflow is broadcast with the
\* queue's name and scoreChange = -100.
C26_InstantOverflow ==
  /\ [](\A i \in 1..Len(queues) : Len(heap[queues[i].obj].messages) <= 10)
  /\ [][\A p \in StartedProcs : p.op = "overflow" =>
          /\ score' = score - 100
          /\ Len(heap'[p.obj].messages) = 10
          /\ ~\E q \in Running : q.op = "overflow" /\ q.obj = p.obj]_vars
  /\ [][\A p \in EndedProcs : p.op = "overflow" =>
          /\ heap'[p.obj].messages = << >>
          /\ score' = score
          /\ [type |-> "queue_overflow", name |-> p.name, scoreChange |-> -100]
               \in Broadcasts("queue_overflow")']_vars

\* ---------------------------------------------------------------- SpecChat
\* ChatChannelManager (src/src/js/chat-ui-manager.js) over the connection
\* held by AmqpConnectionManager.  A call runs to its first broker await in
\* one action and from await to await in the following ones; the four broker
\* awaits of createChannel (channel, basicQos, queue, bind) assign nothing
\* and are one step.  Calls that would use a queue object after the
\* connection was lost are left out.
MaxChatEvents == 3
ChannelNames == { "general", "random" }
Usernames == { "ann" }

Returns(op, name, value) ==
  [to |-> "caller", msg |-> [type |-> "returned", op |-> op, name |-> name,
                             value |-> value]]
Throws(op, name, error) ==
  [to |-> "caller", msg |-> [type |-> "thrown", op |-> op, name |-> name,
                             error |-> error]]
Dispatches(type, name) ==
  [to |-> "listeners", msg |-> [type |-> type, channelName |-> name]]

ChatCall(op, pc, name, obj, username, consumer) ==
  Proc(op, pc, name, obj, username, consumer, Null)

ChatUnused == << gameVars, timerVars >>

\* createChannel: throw new Error('AMQP connection not available').
createChannelError(conn) ==
  IF ~conn THEN "AMQP connection not available" ELSE Null

\* createChannel: channelInfo = { name, queue, consumer: null } and
\* this.channels.set(channelName, channelInfo).
RegisteredInfos(infos, name) == Append(infos, [name |-> name, consumer |-> 0])
RegisteredChannels(chs, infos, name) == MapSet(chs, name, Len(infos) + 1)

\* createChannel(channelName) up to its first await.
CreateChannel(name) ==
  /\ events' = events + 1
  /\ UNCHANGED << chatVars, ChatUnused >>
  /\ IF MapHas(channels, name)
     THEN /\ procs' = procs
          /\ out' = << Returns("createChannel", name, MapGet(channels, name)) >>
     ELSE IF createChannelError(connection) # Null
     THEN /\ procs' = procs
          /\ out' = << Throws("createChannel", name, createChannelError(connection)) >>
     ELSE /\ procs' = With(procs, ChatCall("createChannel", "declare", name, 0, Null, << >>))
          /\ out' = << >>

\* createChannel after queue.bind.
CreateChannelDone(p) ==
  /\ p \in Running /\ p.op = "createChannel" /\ p.pc = "declare"
  /\ channelInfos' = RegisteredInfos(channelInfos, p.name)
  /\ channels' = RegisteredChannels(channels, channelInfos, p.name)
  /\ procs' = Without(p)
  /\ out' = << Dispatches("channelCreated", p.name),
               Returns("createChannel", p.name, Len(channelInfos) + 1) >>
  /\ UNCHANGED << uiVars, connVars, connection, activeChannel, consumers, published, events, ChatUnused >>

\* subscribeToChannel(channelName, username) up to its first broker await.
SubscribeToChannel(name, username) ==
  /\ events' = events + 1
  /\ UNCHANGED << chatVars, ChatUnused >>
  /\ LET o == MapGet(channels, name) IN
     IF o # 0
     THEN IF channelInfos[o].consumer # 0
          THEN /\ procs' = procs
               /\ out' = << Returns("subscribeToChannel", name, Null) >>
          ELSE /\ connection
               /\ procs' = With(procs, ChatCall("subscribeToChannel", "subscribe",
                                                name, o, username, << >>))
               /\ out' = << >>
     ELSE IF createChannelError(connection) # Null
     THEN /\ procs' = procs
          /\ out' = << Throws("subscribeToChannel", name, createChannelError(connection)) >>
     ELSE /\ procs' = With(procs, ChatCall("subscribeToChannel", "declare",
                                           name, 0, username, << >>))
          /\ out' = << >>

\* subscribeToChannel when its createChannel has bound the queue: the
\* channel is registered and queue.subscribe is awaited.
SubscribeDeclared(p) ==
  /\ p \in Running /\ p.op = "subscribeToChannel" /\ p.pc = "declare"
  /\ channelInfos' = RegisteredInfos(channelInfos, p.name)
  /\ channels' = RegisteredChannels(channels, channelInfos, p.name)
  /\ procs' = With(Without(p),
                   [p EXCEPT !.pc = "subscribe", !.obj = Len(channelInfos) + 1])
  /\ out' = << Dispatches("channelCreated", p.name) >>
  /\ UNCHANGED << uiVars, connVars, connection, activeChannel, consumers, published, events, ChatUnused >>

\* sendSystemMessage(channelName, content): nothing for an unknown channel.
SystemPublished(pub, chs, name, content) ==
  IF MapHas(chs, name)
  THEN Append(pub, [type |-> "system", channel |-> name, content |-> content])
  ELSE pub

\* subscribeToChannel after queue.subscribe: the consumer is stored, the
\* channel made active and the join message published.
SubscribeConsuming(p) ==
  /\ p \in Running /\ p.op = "subscribeToChannel" /\ p.pc = "subscribe"
  /\ consumers' = Append(consumers, [name |-> p.name, active |-> TRUE])
  /\ channelInfos' = [channelInfos EXCEPT ![p.obj].consumer = Len(consumers) + 1]
  /\ activeChannel' = p.name
  /\ published' = SystemPublished(published, channels, p.name,
                                  << p.kind, "joined the channel" >>)
  /\ procs' = With(Without(p), [p EXCEPT !.pc = "join"])
  /\ out' = << >>
  /\ UNCHANGED << uiVars, connVars, connection, channels, events, ChatUnused >>

\* subscribeToChannel after the join message.
SubscribeJoined(p) ==
  /\ p \in Running /\ p.op = "subscribeToChannel" /\ p.pc = "join"
  /\ procs' = Without(p)
  /\ out' = << Dispatches("channelSubscribed", p.name),
               Returns("subscribeToChannel", p.name, Null) >>
  /\ UNCHANGED << chatVars, events, ChatUnused >>

\* unsubscribeFromChannel(channelName, username) up to its first await.
UnsubscribeFromChannel(name, username) ==
  /\ events' = events + 1
  /\ UNCHANGED << uiVars, connVars, connection, channels, channelInfos, activeChannel, consumers,
                  ChatUnused >>
  /\ LET o == MapGet(channels, name) IN
     IF o = 0 \/ channelInfos[o].consumer = 0
     THEN /\ published' = published
          /\ procs' = procs
          /\ out' = << Returns("unsubscribeFromChannel", name, Null) >>
     ELSE /\ connection
          /\ published' = SystemPublished(published, channels, name,
                                          << username, "left the channel" >>)
          /\ procs' = With(procs, ChatCall("unsubscribeFromChannel", "leave",
                                           name, o, username, << >>))
          /\ out' = << >>

\* unsubscribeFromChannel after the leave message: channelInfo.consumer is
\* read and cancel() awaited.
UnsubscribeLeft(p) ==
  /\ p \in Running /\ p.op = "unsubscribeFromChannel" /\ p.pc = "leave"
  /\ UNCHANGED << chatVars, events, ChatUnused >>
  /\ IF channelInfos[p.obj].consumer = 0
     THEN /\ procs' = Without(p)
          /\ out' = << Throws("unsubscribeFromChannel", p.name, "TypeError") >>
     ELSE /\ procs' = With(Without(p),
                [p EXCEPT !.pc = "cancel",
                          !.names = << channelInfos[p.obj].consumer >>])
          /\ out' = << >>

\* unsubscribeFromChannel after consumer.cancel().
UnsubscribeCancelled(p) ==
  /\ p \in Running /\ p.op = "unsubscribeFromChannel" /\ p.pc = "cancel"
  /\ consumers' = [consumers EXCEPT ![p.names[1]].active = FALSE]
  /\ channelInfos' = [channelInfos EXCEPT ![p.obj].consumer = 0]
  /\ procs' = Without(p)
  /\ out' = << Dispatches("channelUnsubscribed", p.name),
               Returns("unsubscribeFromChannel", p.name, Null) >>
  /\ UNCHANGED << uiVars, connVars, connection, channels, activeChannel, published, events, ChatUnused >>

\* With this in place of sendMessageError, sendMessage does not look for
\* the channel.
sendMessageErrorNone(o, name) == Null

\* sendMessage: throw new Error(`Channel ${channelName} not found`).
sendMessageError(o, name) ==
  IF o = 0 THEN << "Channel", name, "not found" >> ELSE Null

\* sendMessage(channelName, username, content) up to its await.
SendMessage(name, username) ==
  /\ events' = events + 1
  /\ UNCHANGED << uiVars, connVars, connection, channels, channelInfos, activeChannel, consumers,
                  ChatUnused >>
  /\ LET error == sendMessageError(MapGet(channels, name), name) IN
     IF error # Null
     THEN /\ published' = published
          /\ procs' = procs
          /\ out' = << Throws("sendMessage", name, error) >>
     ELSE /\ connection
          /\ published' = Append(published, [type |-> "message", channel |-> name,
                                             username |-> username])
          /\ procs' = With(procs, ChatCall("sendMessage", "publish", name,
                                           MapGet(channels, name), username, << >>))
          /\ out' = << >>

\* sendMessage after queue.publish.
SendMessageDone(p) ==
  /\ p \in Running /\ p.op = "sendMessage" /\ p.pc = "publish"
  /\ procs' = Without(p)
  /\ out' = << Returns("sendMessage", p.name, Null) >>
  /\ UNCHANGED << chatVars, events, ChatUnused >>

\* scheduleReconnect(): the attempts counter and the pending timeouts.
maxReconnectAttempts == 5
ScheduledAttempts(a) == IF a >= maxReconnectAttempts THEN a ELSE a + 1
ScheduledTimers(t, a) == IF a >= maxReconnectAttempts THEN t ELSE t + 1

\* The calls of the manager itself, as against those made on its connection.
ManagerCalls ==
  LET ps == { p \in Running : p.op \in {"connect", "disconnect"} } IN
  [p \in ps |-> procs[p]]

\* onerror / onclose of a client: AmqpConnectionManager.handleDisconnection().
\* When the manager was connected the connection is dropped, a reconnect is
\* scheduled, the broker awaits under way on the connection are rejected and
\* the broker's consumers of the connection are gone.
handleDisconnection ==
  /\ handlers > 0
  /\ handlers' = handlers - 1
  /\ events' = events + 1
  /\ UNCHANGED << channels, channelInfos, activeChannel, published, userDisconnected,
                  uiVars, ChatUnused >>
  /\ IF ~isConnected
     THEN /\ out' = << >>
          /\ UNCHANGED << connection, channel, isConnected, isConnecting,
                          reconnectAttempts, reconnectTimers, consumers, procs >>
     ELSE /\ isConnected' = FALSE
          /\ isConnecting' = FALSE
          /\ connection' = FALSE
          /\ channel' = FALSE
          /\ reconnectAttempts' = ScheduledAttempts(reconnectAttempts)
          /\ reconnectTimers' = ScheduledTimers(reconnectTimers, reconnectAttempts)
          /\ consumers' = [i \in 1..Len(consumers) |->
                             [consumers[i] EXCEPT !.active = FALSE]]
          /\ procs' = ManagerCalls
          /\ out' = << Dispatches("disconnected", Null) >>

\* The game server before start(): the values of its declarations.
GameNotStarted ==
  /\ score = 0
  /\ spawnRate = InitialSpawnRate
  /\ fanoutMode = FALSE
  /\ gameOver = FALSE
  /\ queueCounter = 0
  /\ queues = << >>
  /\ heap = << >>
  /\ spawnInterval = [active |-> 0, held |-> FALSE]
  /\ difficultyInterval = [active |-> 0, held |-> FALSE]
  /\ newQueueInterval = [active |-> 0, held |-> FALSE]
  /\ fanoutInterval = [active |-> 0, held |-> FALSE]
  /\ fanoutEnd = 0

\* A new ChatChannelManager, its connection up (connect() has run to its
\* end) or not yet.
InitChat ==
  /\ GameNotStarted
  /\ connection \in BOOLEAN
  /\ channel = connection
  /\ isConnected = connection
  /\ isConnecting = FALSE
  /\ reconnectAttempts = 0
  /\ reconnectTimers = 0
  /\ handlers = (IF connection THEN 1 ELSE 0)
  /\ userDisconnected = FALSE
  /\ currentChannel = defaultChannel
  /\ subscribedChannels = {}
  /\ messageBuffers = << >>
  /\ unreadCounts = << >>
  /\ channels = << >>
  /\ channelInfos = << >>
  /\ activeChannel = Null
  /\ consumers = << >>
  /\ published = << >>
  /\ procs = EmptyBag
  /\ out = << >>
  /\ events = 0

ChatBudget == events < MaxChatEvents

NextChat ==
  \/ ChatBudget /\ \E name \in ChannelNames : CreateChannel(name)
  \/ ChatBudget /\ \E name \in ChannelNames, u \in Usernames : SubscribeToChannel(name, u)
  \/ ChatBudget /\ \E name \in ChannelNames, u \in Usernames : UnsubscribeFromChannel(name, u)
  \/ ChatBudget /\ \E name \in ChannelNames, u \in Usernames : SendMessage(name, u)
  \/ ChatBudget /\ handleDisconnection
  \/ \E p \in Running : CreateChannelDone(p)
  \/ \E p \in Running : SubscribeDeclared(p)
  \/ \E p \in Running : SubscribeConsuming(p)
  \/ \E p \in Running : SubscribeJoined(p)
  \/ \E p \in Running : UnsubscribeLeft(p)
  \/ \E p \in Running : UnsubscribeCancelled(p)
  \/ \E p \in Running : SendMessageDone(p)

SpecChat == InitChat /\ [][NextChat]_vars

OutMsgs == { out[i] : i \in 1..Len(out) }

\* C27: createChannel for a name the map holds returns the map's object,
\* starts no declaration, dispatches nothing and changes no state; a
\* createChannel that returns after declaring returns for a name the map
\* did not hold yet, and channelCreated is dispatched only for such a name;
\* the map holds one entry per name.
C27_CreateChannelIdempotent ==
  /\ [][\A name \in ChannelNames :
          (CreateChannel(name) /\ MapHas(channels, name)) =>
             /\ out' = << Returns("createChannel", name, MapGet(channels, name)) >>
             /\ procs' = procs
             /\ UNCHANGED chatVars]_vars
  /\ [][\A name \in ChannelNames :
          (\/ Dispatches("channelCreated", name) \in OutMsgs'
           \/ \E o \in 1..Len(channelInfos') :
                Returns("createChannel", name, o) \in OutMsgs')
          => (MapHas(channels, name) => UNCHANGED << channels, channelInfos >>)]_vars
  /\ [](\A i, j \in 1..Len(channels) : channels[i].name = channels[j].name => i = j)

ActiveConsumers(name) ==
  { i \in 1..Len(consumers) : consumers[i].name = name /\ consumers[i].active }
SystemMessages(name, text) ==
  { i \in 1..Len(published) :
      /\ published[i].type = "system"
      /\ published[i].channel = name
      /\ published[i].content[2] = text }

\* C29: when subscribeToChannel(name, user) returns, name is the active
\* channel and the channel of the map has a consumer; a channel has at most
\* one consumer running at the broker, and at most one more "joined the
\* channel" message than "left the channel" messages; unsubscribeFromChannel
\* on a channel without a consumer changes nothing and starts nothing.
C29_Subscribe ==
  /\ [][\A name \in ChannelNames :
          Returns("subscribeToChannel", name, Null) \in OutMsgs' =>
             /\ activeChannel' = name
             /\ MapHas(channels', name)
             /\ channelInfos'[MapGet(channels', name)].consumer # 0]_vars
  /\ [](\A name \in ChannelNames : Cardinality(ActiveConsumers(name)) <= 1)
  /\ [](\A name \in ChannelNames :
          Cardinality(SystemMessages(name, "joined the channel"))
            <= Cardinality(SystemMessages(name, "left the channel")) + 1)
  /\ [][\A name \in ChannelNames, u \in Usernames :
          (/\ UnsubscribeFromChannel(name, u)
           /\ \/ ~MapHas(channels, name)
              \/ channelInfos[MapGet(channels, name)].consumer = 0)
          => /\ UNCHANGED chatVars
             /\ procs' = procs]_vars

\* ------------------------------------------------------- C31 .. C36
\* The queue-lifecycle chains of attempts: the pending timeouts of
\* scheduleNextQueue and the callbacks suspended in createQueue.
LifecycleCallbacks ==
  BagCardinality([p \in { q \in Running : q.op = "newQueue" } |-> procs[p]])
LifecycleChains == newQueueInterval.active + LifecycleCallbacks

InitGameRunning == \E p \in Running : p.op = "initGame"

\* C31: within a session (no step of initGame) every step leaves the number
\* of queue-lifecycle chains as it is: a firing timeout is followed by a
\* suspended callback or by exactly one new timeout, and a callback that
\* resumes sets exactly one new timeout, so the chain neither stops nor
\* forks.
C31_LifecycleChain ==
  [][(/\ ~InitGameRunning
      /\ ~InitGameRunning'
      /\ LifecycleChains = 1)
     => LifecycleChains' = 1]_vars

\* C32: an ack or reject that is accepted removes the first message of the
\* queue the map holds under the name and nothing else: the list before is
\* that message followed by the list after, the message is the one the
\* command scores and reports, the queue's other fields, every other queue
\* and the map are unchanged; a spawn that completes appends its message at
\* the end, and the completion of the command changes no list.
C32_PopsFront ==
  /\ [][\A cmd \in {"ack", "reject"}, name \in CommandNames, c \in Clients :
          (/\ AckReject(cmd, name, c)
           /\ AckRejectError(gameOver, heap, MapGet(queues, name)) = Null)
          => LET o == MapGet(queues, name) IN
             /\ heap[o].messages = << Head(heap[o].messages) >> \o heap'[o].messages
             /\ Len(heap'[o].messages) = Len(heap[o].messages) - 1
             /\ heap' = [heap EXCEPT ![o].messages = heap'[o].messages]
             /\ queues' = queues
             /\ \E p \in StartedProcs :
                  p.op = cmd /\ p.obj = o /\ p.kind = Head(heap[o].messages)]_vars
  /\ [][\A p \in EndedProcs :
          /\ p.op \in {"ack", "reject"} => heap' = heap
          /\ p.op \in {"spawn", "fanout"} =>
               heap'[p.obj].messages = Append(heap[p.obj].messages, p.kind)]_vars

C32_Witness ==
  /\ \E p \in Running : p.op = "reject" /\ p.obj = 1 /\ p.kind = "good"
  /\ heap[1].messages = Tail(Filled(9))
  /\ heap[2].messages = Filled(9)

\* C33: a purge command is accepted (50 points taken, broker purge started)
\* only when no earlier purge of the same queue is still awaiting the
\* broker, so that one lock episode costs 50 points once.
C33_OnePurgePerLock ==
  [][\A p \in StartedProcs : p.op = "purge" =>
       /\ score' = score - 50
       /\ ~\E q \in Running : q.op = "purge" /\ q.obj = p.obj]_vars

\* C34: for every queue of the map, locked is true exactly when lockedAt is
\* not null, a locked queue holds exactly 10 messages, and a grace timer is
\* pending for the queue only while it is locked.
C34_LockFields ==
  \A i \in 1..Len(queues) :
    LET q == heap[queues[i].obj] IN
    /\ q.locked <=> q.lockedAt # Null
    /\ q.locked => Len(q.messages) = 10
    /\ q.timers > 0 => q.locked

\* ----------------------------------------------------------- SpecGameOver
\* A session in which both queues have reached 10 messages and are locked,
\* each with its grace timer pending; the grace timers, purge and reset.
MaxGameOverEvents == 3

InitBothLocked ==
  /\ score = 0
  /\ spawnRate \in InitSpawnRates
  /\ fanoutMode = FALSE
  /\ gameOver = FALSE
  /\ queueCounter = InitialQueues
  /\ queues = [i \in 1..InitialQueues |->
                 [name |-> getNextQueueName(i - 1), obj |-> i]]
  /\ heap = << InitQueueData(getNextQueueName(0), LockThreshold),
               InitQueueData(getNextQueueName(1), LockThreshold) >>
  /\ spawnInterval = Running1
  /\ difficultyInterval = Running1
  /\ newQueueInterval = Running1
  /\ fanoutInterval = Running1
  /\ fanoutEnd = 0
  /\ procs = EmptyBag
  /\ out = << >>
  /\ events = 0
  /\ ChatConstructed

GameOverBudget == events < MaxGameOverEvents

NextGameOver ==
  \/ \E o \in 1..Len(heap) : LockTimerFire(o) /\ UNCHANGED chatVars
  \/ GameOverBudget /\ \E name \in CommandNames, c \in Clients : Purge(name, c) /\ UNCHANGED chatVars
  \/ GameOverBudget /\ \E c \in Clients : Reset(c) /\ UNCHANGED chatVars
  \/ \E p \in Running : PurgeDone(p) /\ UNCHANGED chatVars
  \/ \E p \in Running : ResetDeleted(p) /\ UNCHANGED chatVars
  \/ \E p \in Running : ResetCreated1(p) /\ UNCHANGED chatVars
  \/ \E p \in Running : ResetCreated2(p) /\ UNCHANGED chatVars

SpecGameOver == InitBothLocked /\ [][NextGameOver]_vars

GameOverBroadcasts ==
  { i \in 1..Len(out) : out[i].to = "all" /\ out[i].msg.type = "game_over" }

\* C35: game_over is broadcast only by a step that changes gameOver from
\* false to true, and once by that step; gameOver changes from true to false
\* only where initGame resets the state.  Between two such resets there is
\* therefore at most one change to true and at most one game_over.
C35_GameOverOnce ==
  /\ [][GameOverBroadcasts' # {} =>
          /\ ~gameOver /\ gameOver'
          /\ Cardinality(GameOverBroadcasts') = 1]_vars
  /\ [][(~gameOver /\ gameOver') => GameOverBroadcasts' # {}]_vars
  /\ [][(gameOver /\ ~gameOver') =>
          \E p \in StartedProcs : p.op = "initGame" /\ p.pc = "create1"]_vars

C35_Witness ==
  /\ gameOver
  /\ out = << >>
  /\ \A o \in 1..2 : heap[o].locked /\ heap[o].lockTimeout = "fired"

MaxConnectionEvents == 3

ManagerUnused == << channels, channelInfos, activeChannel, consumers, published,
                    uiVars, ChatUnused >>

\* The catch block of connect(): isConnecting = false, 'error' is
\* dispatched, scheduleReconnect().
ConnectCaught(p) ==
  /\ isConnecting' = FALSE
  /\ reconnectAttempts' = ScheduledAttempts(reconnectAttempts)
  /\ reconnectTimers' = ScheduledTimers(reconnectTimers, reconnectAttempts)
  /\ procs' = Without(p)
  /\ out' = << Dispatches("error", Null) >>

\* connect() up to its first await, called by `origin`.
connect(origin, timers) ==
  /\ reconnectTimers' = timers
  /\ UNCHANGED << channel, isConnected, reconnectAttempts, handlers, ManagerUnused >>
  /\ IF isConnected \/ isConnecting
     THEN /\ out' = << >>
          /\ UNCHANGED << connection, isConnecting, procs >>
     ELSE /\ isConnecting' = TRUE
          /\ connection' = TRUE
          /\ procs' = With(procs, ChatCall("connect", "connect", Null, 0, origin, << >>))
          /\ out' = << Dispatches("connecting", Null) >>

\* The application calls connect().
Connect ==
  /\ events' = events + 1
  /\ userDisconnected' = FALSE
  /\ connect("app", reconnectTimers)

\* A timeout of scheduleReconnect fires: connect().
ReconnectTimerFire ==
  /\ reconnectTimers > 0
  /\ UNCHANGED << userDisconnected, events >>
  /\ connect("timer", reconnectTimers - 1)

\* connect() after `await this.connection.connect()`: this.connection is
\* read again for channel().
ConnectOpened(p) ==
  /\ p \in Running /\ p.op = "connect" /\ p.pc = "connect"
  /\ UNCHANGED << connection, channel, isConnected, handlers, userDisconnected,
                  events, ManagerUnused >>
  /\ IF connection
     THEN /\ procs' = With(Without(p), [p EXCEPT !.pc = "channel"])
          /\ out' = << >>
          /\ UNCHANGED << isConnecting, reconnectAttempts, reconnectTimers >>
     ELSE ConnectCaught(p)

\* connect() when client.connect() or client.channel() rejects.
ConnectFailed(p) ==
  /\ p \in Running /\ p.op = "connect"
  /\ ConnectCaught(p)
  /\ UNCHANGED << connection, channel, isConnected, handlers, userDisconnected,
                  events, ManagerUnused >>

\* connect() after `await this.connection.channel()`: the flags are set,
\* 'connected' is dispatched and the handlers are put on this.connection;
\* when that is null by now the catch block runs.
ConnectChannelOpened(p) ==
  /\ p \in Running /\ p.op = "connect" /\ p.pc = "channel"
  /\ channel' = TRUE
  /\ isConnected' = TRUE
  /\ isConnecting' = FALSE
  /\ procs' = Without(p)
  /\ UNCHANGED << connection, userDisconnected, events, ManagerUnused >>
  /\ IF connection
     THEN /\ reconnectAttempts' = 0
          /\ reconnectTimers' = reconnectTimers
          /\ handlers' = handlers + 1
          /\ out' = << Dispatches("connected", Null) >>
     ELSE /\ reconnectAttempts' = ScheduledAttempts(0)
          /\ reconnectTimers' = ScheduledTimers(reconnectTimers, 0)
          /\ handlers' = handlers
          /\ out' = << Dispatches("connected", Null), Dispatches("error", Null) >>

\* The assignments at the end of disconnect().
Disconnected ==
  /\ isConnected' = FALSE
  /\ isConnecting' = FALSE
  /\ connection' = FALSE
  /\ channel' = FALSE
  /\ userDisconnected' = ~\E q \in Running : q.op = "connect" /\ q.kind = "app"

\* The application calls disconnect(): up to `await this.connection.close()`.
Disconnect ==
  /\ events' = events + 1
  /\ out' = << >>
  /\ UNCHANGED << reconnectAttempts, reconnectTimers, handlers, ManagerUnused >>
  /\ IF connection
     THEN /\ procs' = With(procs, ChatCall("disconnect", "close", Null, 0, "app", << >>))
          /\ UNCHANGED << connection, channel, isConnected, isConnecting,
                          userDisconnected >>
     ELSE /\ procs' = procs
          /\ Disconnected

\* disconnect() after close() has resolved or rejected.
DisconnectClosed(p) ==
  /\ p \in Running /\ p.op = "disconnect"
  /\ procs' = Without(p)
  /\ out' = << >>
  /\ Disconnected
  /\ UNCHANGED << reconnectAttempts, reconnectTimers, handlers, events, ManagerUnused >>

\* A new AmqpConnectionManager, and a new ChatChannelManager over it.
InitConnection ==
  /\ GameNotStarted
  /\ ChatConstructed
  /\ procs = EmptyBag
  /\ out = << >>
  /\ events = 0

ConnectionBudget == events < MaxConnectionEvents

NextConnection ==
  \/ ConnectionBudget /\ Connect
  \/ ConnectionBudget /\ Disconnect
  \/ ConnectionBudget /\ handleDisconnection
  \/ ReconnectTimerFire
  \/ \E p \in Running : ConnectOpened(p)
  \/ \E p \in Running : ConnectFailed(p)
  \/ \E p \in Running : ConnectChannelOpened(p)
  \/ \E p \in Running : DisconnectClosed(p)

SpecConnection == InitConnection /\ [][NextConnection]_vars

ConnectInProgress == \E p \in Running : p.op = "connect"

\* C37: reconnectAttempts never exceeds 5 and is 0 after a step that
\* dispatches 'connected'; a connect() is started (isConnecting set, a
\* client created) only when the manager is not connected and no earlier
\* connect() is still under way.
C37_Reconnect ==
  /\ [](reconnectAttempts <= 5)
  /\ [][Dispatches("connected", Null) \in OutMsgs' => reconnectAttempts' = 0]_vars
  /\ [][(\E p \in StartedProcs : p.op = "connect" /\ p.pc = "connect")
        => ~isConnected /\ ~ConnectInProgress]_vars

\* C38: while disconnect() has completed and the application has not
\* called connect() since, the manager is disconnected: isConnected is
\* false, connection and channel are null.
C38_StaysDisconnected ==
  userDisconnected => ~isConnected /\ ~connection /\ ~channel

\* ---------------------------------------------------------------------
\* C39: ChatUIManager (chat-ui-manager.js): message buffers and unread
\* counts.  The ChatChannelManager behind the UI is seen through its
\* promises only: subscribeToChannel and unsubscribeFromChannel resolve or
\* reject some time after the call.  A message is the parsed body handed to
\* the 'messageReceived' listener; its id is its arrival number.  Direct
\* message channels are left out.
\* ---------------------------------------------------------------------
MaxUIEvents == 4
UIChannels == { "general", "random", "user-notifications-ann" }

\* channelName.startsWith('user-notifications-')
IsNotifications(name) == name = "user-notifications-ann"

\* Map.has / Map.get / Map.set on messageBuffers and unreadCounts.
UIHas(m, name) == name \in DOMAIN m
UISet(m, name, v) == [c \in DOMAIN m \cup { name } |-> IF c = name THEN v ELSE m[c]]

UnreadAfterAlways(unread, name, current) ==
  LET u == IF UIHas(unread, name) THEN unread ELSE UISet(unread, name, 0) IN
  UISet(u, name, u[name] + 1)

\* handleMessageReceived: unreadCounts after a message on channel name.
UnreadAfter(unread, name, current) ==
  LET u == IF UIHas(unread, name) THEN unread ELSE UISet(unread, name, 0) IN
  IF name = current THEN u ELSE UISet(u, name, u[name] + 1)

\* handleMessageReceived: messageBuffers after message on channel name.
BuffersAfter(buffers, name, message) ==
  LET b == IF UIHas(buffers, name) THEN buffers ELSE UISet(buffers, name, << >>) IN
  UISet(b, name, Append(b[name], message))

UIUnused == << connection, channels, channelInfos, activeChannel, consumers,
               published, connVars, ChatUnused >>

\* The 'messageReceived' listener: handleMessageReceived(e.detail).
HandleMessageReceived(channelName, message) ==
  /\ events' = events + 1
  /\ procs' = procs
  /\ UNCHANGED << currentChannel, subscribedChannels, UIUnused >>
  /\ IF IsNotifications(channelName)
     THEN /\ UNCHANGED << messageBuffers, unreadCounts >>
          /\ out' = << Returns("handleMessageReceived", channelName, "ignored") >>
     ELSE /\ messageBuffers' = BuffersAfter(messageBuffers, channelName, message)
          /\ unreadCounts' = UnreadAfter(unreadCounts, channelName, currentChannel)
          /\ out' = << Returns("handleMessageReceived", channelName, "buffered") >>

\* switchChannel from "Update current channel and UI" to its end.
Switched(channelName) ==
  /\ currentChannel' = channelName
  /\ unreadCounts' = UISet(unreadCounts, channelName, 0)
  /\ out' = << Returns("switchChannel", channelName, "switched") >>

\* switchChannel(channelName) up to its first await or its return, called
\* with the calls in flight rest and the subscribed set subs.
switchChannel(channelName, rest, subs) ==
  IF IsNotifications(channelName) \/ currentChannel = channelName
  THEN /\ UNCHANGED << currentChannel, unreadCounts >>
       /\ procs' = rest
       /\ out' = << Returns("switchChannel", channelName, "unchanged") >>
  ELSE IF channelName \notin subs
  THEN /\ UNCHANGED << currentChannel, unreadCounts >>
       /\ procs' = With(rest, ChatCall("switchChannel", "subscribe", channelName,
                                       0, "ui", << >>))
       /\ out' = << >>
  ELSE /\ procs' = rest
       /\ Switched(channelName)

\* A click on a channel, the join form or leaveChannel calls switchChannel.
SwitchChannel(channelName) ==
  /\ events' = events + 1
  /\ switchChannel(channelName, procs, subscribedChannels)
  /\ UNCHANGED << subscribedChannels, messageBuffers, UIUnused >>

\* switchChannel after subscribeToChannel has resolved.
SwitchSubscribed(p) ==
  /\ p \in Running /\ p.op = "switchChannel"
  /\ procs' = Without(p)
  /\ subscribedChannels' = subscribedChannels \cup { p.name }
  /\ Switched(p.name)
  /\ UNCHANGED << messageBuffers, events, UIUnused >>

\* switchChannel after subscribeToChannel has rejected: showError, return.
SwitchFailed(p) ==
  /\ p \in Running /\ p.op = "switchChannel"
  /\ procs' = Without(p)
  /\ out' = << Returns("switchChannel", p.name, "failed") >>
  /\ UNCHANGED << uiVars, events, UIUnused >>

\* leaveChannel(channelName) up to its await of unsubscribeFromChannel.
LeaveChannel(channelName) ==
  /\ events' = events + 1
  /\ UNCHANGED << uiVars, UIUnused >>
  /\ IF channelName = defaultChannel \/ IsNotifications(channelName)
     THEN /\ procs' = procs
          /\ out' = << Returns("leaveChannel", channelName, "unchanged") >>
     ELSE /\ procs' = With(procs, ChatCall("leaveChannel", "unsubscribe",
                                           channelName, 0, "ui", << >>))
          /\ out' = << >>

\* leaveChannel after unsubscribeFromChannel has resolved: the channel is
\* removed from subscribedChannels and, if it is the current one,
\* switchChannel(defaultChannel) is called.
LeaveUnsubscribed(p) ==
  /\ p \in Running /\ p.op = "leaveChannel"
  /\ subscribedChannels' = subscribedChannels \ { p.name }
  /\ UNCHANGED << messageBuffers, events, UIUnused >>
  /\ IF currentChannel = p.name
     THEN switchChannel(defaultChannel, Without(p), subscribedChannels')
     ELSE /\ procs' = Without(p)
          /\ out' = << Returns("leaveChannel", p.name, "left") >>
          /\ UNCHANGED << currentChannel, unreadCounts >>

\* leaveChannel after unsubscribeFromChannel has rejected: showError.
LeaveFailed(p) ==
  /\ p \in Running /\ p.op = "leaveChannel"
  /\ procs' = Without(p)
  /\ out' = << Returns("leaveChannel", p.name, "failed") >>
  /\ UNCHANGED << uiVars, events, UIUnused >>

\* A new ChatUIManager: currentChannel is the default channel, no channel
\* is subscribed, no buffer and no unread count exists.
InitUI ==
  /\ GameNotStarted
  /\ ChatConstructed
  /\ procs = EmptyBag
  /\ out = << >>
  /\ events = 0

UIBudget == events < MaxUIEvents

NextUI ==
  \/ UIBudget /\ \E name \in UIChannels :
       HandleMessageReceived(name, [id |-> events + 1, type |-> "message"])
  \/ UIBudget /\ \E name \in UIChannels : SwitchChannel(name)
  \/ UIBudget /\ \E name \in UIChannels : LeaveChannel(name)
  \/ \E p \in Running : SwitchSubscribed(p)
  \/ \E p \in Running : SwitchFailed(p)
  \/ \E p \in Running : LeaveUnsubscribed(p)
  \/ \E p \in Running : LeaveFailed(p)

SpecUI == InitUI /\ [][NextUI]_vars

Buffer(name) == IF UIHas(messageBuffers, name) THEN messageBuffers[name] ELSE << >>
Unread(name) == IF UIHas(unreadCounts, name) THEN unreadCounts[name] ELSE 0
Received(name) ==
  \E i \in 1..Len(out) : /\ out[i].msg.op = "handleMessageReceived"
                         /\ out[i].msg.name = name
SwitchCompleted(name) ==
  \E v \in { "switched", "unchanged" } : Returns("switchChannel", name, v) \in OutMsgs

\* C39: a message received on a channel other than the user-notifications
\* channel is appended once, at the end, to that channel's buffer, and
\* nothing else changes a buffer; the channel's unread count rises by one
\* when it is not the current channel and stays when it is, and no other
\* step raises a count; after switchChannel to a channel has completed its
\* unread count is 0.
C39_BuffersAndUnread ==
  /\ [][\A name \in UIChannels \ { "user-notifications-ann" } :
          IF Received(name)'
          THEN /\ Buffer(name)' = Append(Buffer(name),
                                         [id |-> events', type |-> "message"])
               /\ Unread(name)' = Unread(name)
                                    + (IF name = currentChannel THEN 0 ELSE 1)
          ELSE /\ Buffer(name)' = Buffer(name)
               /\ Unread(name)' <= Unread(name)]_vars
  /\ [][\A name \in UIChannels \ { "user-notifications-ann" } :
          SwitchCompleted(name)' => Unread(name)' = 0]_vars
  /\ [](Buffer("user-notifications-ann") = << >>)

\* A message arrived on "random" while "general" was current, and
\* switchChannel("random") has just completed.
C39_Witness ==
  /\ currentChannel = "random"
  /\ Len(Buffer("random")) >= 1
  /\ UIHas(unreadCounts, "random") /\ unreadCounts["random"] = 0
  /\ Returns("switchChannel", "random", "switched") \in OutMsgs

====
